---- MODULE Spec2Model ----
(***************************************************************************)
(* A-Life simulation core: SimulationManager (tick engine, history and     *)
(* replay), the organism classes, the environment field and the            *)
(* MemoryResidentSimulationStore.                                          *)
(*                                                                         *)
(* Python objects live in a heap (address -> object) so that aliasing and  *)
(* copy.deepcopy are visible: the live sets and the snapshots hold         *)
(* addresses, never values.  Energies and nutrient levels are fixed-point  *)
(* numbers in thousandths (1.5 is 1500); a product with a float constant   *)
(* is rounded towards zero where the float product is not a multiple of    *)
(* 0.001.  random.* calls are nondeterministic choices.                    *)
(***************************************************************************)
EXTENDS Integers, Sequences, FiniteSets, TLC

(***************************************************************************)
(* Bounds of the model.                                                    *)
(***************************************************************************)
GridSize == 3
MaxTicks == 1
MaxSteps == 2
MaxOrganisms == 3
MaxStoreTick == 1
MaxCalls == 3
MaxUpdates == 1
MaxNutrientCells == 2

(***************************************************************************)
(* utils/constants.py (values in thousandths where the code has floats).   *)
(***************************************************************************)
GRID_WIDTH == GridSize
GRID_HEIGHT == GridSize
MAX_TIMESTEPS == MaxTicks
INITIAL_NUTRIENT_LEVEL == 500
PRODUCER_NUTRIENT_CONSUMPTION == 100
CONSUMER_NUTRIENT_RELEASE == 500
PRODUCER_MAX_ENERGY == 30000
PRODUCER_SEED_COST == 2000
EAT_GAIN_HERBIVORE == 6000
EAT_GAIN_CARNIVORE == 10000
EAT_GAIN_OMNIVORE_PLANT == 3000
EAT_GAIN_OMNIVORE_ANIMAL == 5000
HERBIVORE_REPRO_THRESHOLD == 26000
CARNIVORE_REPRO_THRESHOLD == 27000
OMNIVORE_REPRO_THRESHOLD == 28000
MAX_LIFESPAN_HERBIVORE == 300
MAX_LIFESPAN_CARNIVORE == 250
MAX_LIFESPAN_OMNIVORE == 280
REPRODUCTION_COOLDOWN == 10
BASE_LIFE_COST == 1500
CRITICAL_ENERGY == 8000
DISCOVERY_BONUS == 200
TRACK_CELL_HISTORY_LEN == 20
DISEASE_DURATION == 40
SEASON_LENGTH == 50

PRODUCER_INIT_ENERGY_RANGE == <<5000, 15000>>
SPEED_RANGE == <<0, 5>>
METABOLISM_RANGE == <<500, 2000>>
VISION_RANGE == <<1, 3>>

\* x * PRODUCER_ENERGY_GAIN (0.3)
ProducerEnergyGain(x) == (x * 3) \div 10
\* x * DISEASE_ENERGY_DRAIN_MULTIPLIER (1.3)
DiseaseDrain(x) == (x * 13) \div 10
\* MOVE_COST_FACTOR (0.3) * metabolism
MoveCostFactor(m) == (m * 3) \div 10
\* a diffusion rate of 0
NoDiffusion(x) == 0
\* x * NUTRIENT_DIFFUSION_RATE (0.1), rounded towards zero
DiffusionRate(x) == IF x >= 0 THEN x \div 10 ELSE -((-x) \div 10)
\* a decay rate of 0
NoDecay(x) == x
\* x * (1.0 - NUTRIENT_DECAY_RATE) (0.99), rounded towards zero
Decay(x) == IF x >= 0 THEN (x * 99) \div 100 ELSE -(((-x) * 99) \div 100)

Min(a, b) == IF a < b THEN a ELSE b
Max(a, b) == IF a > b THEN a ELSE b
Abs(a) == IF a < 0 THEN -a ELSE a
Range(s) == {s[i] : i \in 1..Len(s)}
\* list.pop(i) with a 1-based index
Pop(s, i) == [j \in 1..(Len(s) - 1) |-> IF j < i THEN s[j] ELSE s[j + 1]]

Kinds == {"Producer", "Herbivore", "Carnivore", "Omnivore"}

(***************************************************************************)
(* The random source.  The module random is a record of sets: each names   *)
(* the values the calls of one place may return in a behaviour.  Every     *)
(* member is a value the call can return in the program.                   *)
(*   seed        "random.random() < PRODUCER_SEED_PROB"                    *)
(*   adjacent    random.choice(dirs) in Producer.random_adjacent           *)
(*   energy      random.randint over PRODUCER_INIT_ENERGY_RANGE            *)
(*   genome      toolbox.individual(): <<speed, metabolism, vision>>       *)
(*   mutation    which of the three "random.random() < MUTATION_RATE"      *)
(*               tests of mutate_genes succeed                             *)
(*   disease     "random.random() < DISEASE_CHANCE_PER_TURN"               *)
(*   infect      "random.random() < 0.7" in disease_outbreak               *)
(*   spawn       "random.random() < spawn_chance" in step_simulation       *)
(*   direction   random.choice(["UP", "DOWN", "LEFT", "RIGHT"]) in move_random *)
(*   kind        random.choice of the organism type to spawn               *)
(*   cell        the cell random_border_cell returns                       *)
(***************************************************************************)
Quiet == [seed |-> {FALSE}, adjacent |-> {<<1, 0>>}, energy |-> {5000},
          genome |-> {<<1, 1000, 2>>},
          mutation |-> {<<TRUE, TRUE, TRUE>>},
          direction |-> {"RIGHT"},
          disease |-> {FALSE}, infect |-> {TRUE},
          spawn |-> {FALSE}, kind |-> {"herbivore"}, cell |-> {<<0, 0>>}]

Seeding == [Quiet EXCEPT !.seed = {TRUE}]

Epidemic == [Quiet EXCEPT !.disease = {TRUE, FALSE}]

Spawning == [Quiet EXCEPT !.spawn = {TRUE, FALSE}]

\* every direction of move_random, both outcomes of the mutation tests
Roaming == [Quiet EXCEPT !.direction = {"UP", "DOWN", "LEFT", "RIGHT"},
                         !.mutation = {<<TRUE, TRUE, TRUE>>, <<FALSE, FALSE, FALSE>>}]

\* producers that seed or not, to the east, the north-west or the south-east
Sowing == [Quiet EXCEPT !.seed = {TRUE, FALSE}, !.adjacent = {<<1, 0>>, <<-1, -1>>, <<1, 1>>}]

\* a border spawn of any kind, or none
Settling == [Quiet EXCEPT !.spawn = {TRUE, FALSE},
                          !.kind = {"producer", "herbivore", "carnivore", "omnivore"},
                          !.cell = {<<0, 0>>, <<GridSize - 1, 1>>}]

\* a producer that seeds or not, a border spawn or none
Eventful == [Quiet EXCEPT !.seed = {TRUE, FALSE}, !.spawn = {TRUE, FALSE},
                          !.kind = {"producer", "herbivore"}]

\* every outcome of each test, and the choices that cross the edges of the grid
Wild == [seed |-> {TRUE, FALSE}, adjacent |-> {<<1, 0>>, <<-1, -1>>, <<1, 1>>},
         energy |-> {5000}, genome |-> {<<1, 1000, 2>>},
         mutation |-> {<<TRUE, TRUE, TRUE>>, <<FALSE, FALSE, FALSE>>},
         direction |-> {"UP", "DOWN", "LEFT", "RIGHT"},
         disease |-> {TRUE, FALSE}, infect |-> {TRUE, FALSE},
         spawn |-> {TRUE, FALSE}, kind |-> {"producer", "herbivore", "carnivore", "omnivore"},
         cell |-> {<<0, 0>>, <<GridSize - 1, 1>>}]

\* random.choice([-1, 1]) and random.uniform(-0.2, 0.2) in mutate_genes
RandSpeedDelta == {1}
RandMetabolismDelta == {-200}
RandVisionDelta == {-1}

(***************************************************************************)
(* State.                                                                  *)
(***************************************************************************)
VARIABLES
    heap,               \* address -> Python object (organism or ndarray)
    environment,        \* SimulationManager.environment (address of the ndarray)
    producers,          \* SimulationManager.producers   (list of addresses)
    herbivores,
    carnivores,
    omnivores,
    history,            \* SimulationManager.history (list of SimulationState)
    current_step,
    is_paused,
    is_replaying,
    step_counter,
    population_history, \* list of [step, producers, herbivores, carnivores, omnivores]
    next_id,            \* the class attribute next_id of each organism class
    memory_store,       \* a MemoryResidentSimulationStore
    last_call,          \* the last operation called, what it returned or raised
    rng,                \* the random source of the behaviour
    probe,              \* bookkeeping: the running step_back/step_forward sequence
    longterm,           \* the file of an HDF5Storage
    calls,              \* bookkeeping: the number of calls made on the store or on the organisms
    updated             \* bookkeeping: the address of the organism of the last call (-1: none)

vars == <<heap, environment, producers, herbivores, carnivores, omnivores,
          history, current_step, is_paused, is_replaying, step_counter,
          population_history, next_id, memory_store, last_call, rng, probe,
          longterm, calls, updated>>

(***************************************************************************)
(* Heap.                                                                   *)
(***************************************************************************)
\* the address the next object gets: the smallest one not in use
Fresh(h) == CHOOSE n \in 0..Cardinality(DOMAIN h) :
                n \notin DOMAIN h /\ \A m \in 0..(n - 1) : m \in DOMAIN h

New(h, obj) == [a \in (DOMAIN h) \cup {Fresh(h)} |-> IF a \in DOMAIN h THEN h[a] ELSE obj]

\* the objects a list of addresses refers to, field for field
Deref(h, refs) == [i \in 1..Len(refs) |-> h[refs[i]]]

\* a copy that shares the objects with the list it copies
SharedList(h, refs) == [heap |-> h, refs |-> refs]

\* copy.deepcopy of a list of objects: [heap, refs] with one new object per element
RECURSIVE DeepCopyList(_, _)
DeepCopyList(h, refs) ==
    IF refs = <<>> THEN [heap |-> h, refs |-> <<>>]
    ELSE LET a == Fresh(h)
             rest == DeepCopyList(New(h, h[refs[1]]), Tail(refs))
         IN  [heap |-> rest.heap, refs |-> <<a>> \o rest.refs]

\* the SimulationManager object (with the heap and the class attributes
\* next_id): the record the operations below work on
Self == [heap |-> heap, environment |-> environment, producers |-> producers,
         herbivores |-> herbivores, carnivores |-> carnivores,
         omnivores |-> omnivores, next_id |-> next_id, history |-> history,
         current_step |-> current_step, is_paused |-> is_paused,
         is_replaying |-> is_replaying, step_counter |-> step_counter,
         population_history |-> population_history, memory_store |-> memory_store,
         rng |-> rng]

Population(w) == Len(w.producers) + Len(w.herbivores) + Len(w.carnivores) + Len(w.omnivores)

\* the addresses the manager refers to, the live state first, then the
\* snapshots in order
RECURSIVE HistoryRefs(_)
HistoryRefs(hist) ==
    IF hist = <<>> THEN <<>>
    ELSE hist[1].producers \o hist[1].herbivores \o hist[1].carnivores
            \o hist[1].omnivores \o <<hist[1].environment>> \o HistoryRefs(Tail(hist))

Refs(w) == <<w.environment>> \o w.producers \o w.herbivores \o w.carnivores
                \o w.omnivores \o HistoryRefs(w.history)

\* Garbage collection: objects nothing refers to are dropped, and the rest
\* are renumbered in the order of Refs.  Addresses are not observable in
\* Python beyond identity, which the renumbering keeps.
\* the new address of a, and of every element of the list l
Renumbered(refs, a) ==
    (CHOOSE i \in 1..Len(refs) : refs[i] = a /\ \A j \in 1..(i - 1) : refs[j] /= a) - 1
RenumberedList(refs, l) == [i \in 1..Len(l) |-> Renumbered(refs, l[i])]

CollectRefs(w, refs) ==
    [w EXCEPT !.heap = [n \in {Renumbered(refs, a) : a \in Range(refs)} |->
                            w.heap[CHOOSE a \in Range(refs) : Renumbered(refs, a) = n]],
              !.environment = Renumbered(refs, @),
              !.producers = RenumberedList(refs, @),
              !.herbivores = RenumberedList(refs, @),
              !.carnivores = RenumberedList(refs, @),
              !.omnivores = RenumberedList(refs, @),
              !.history = [i \in 1..Len(@) |->
                            [t |-> @[i].t,
                             producers |-> RenumberedList(refs, @[i].producers),
                             herbivores |-> RenumberedList(refs, @[i].herbivores),
                             carnivores |-> RenumberedList(refs, @[i].carnivores),
                             omnivores |-> RenumberedList(refs, @[i].omnivores),
                             environment |-> Renumbered(refs, @[i].environment)]]]

Collect(w) == CollectRefs(w, Refs(w))

(***************************************************************************)
(* Environment field (simulation/environment.py).                          *)
(***************************************************************************)
\* environment[i, j]
EnvGet(w, i, j) == w.heap[w.environment].a[i][j]
\* environment[i, j] += d
EnvAdd(w, i, j, d) == [w EXCEPT !.heap[w.environment].a[i][j] = @ + d]

current_season(timestep) ==
    IF (timestep \div SEASON_LENGTH) % 2 = 0 THEN "WINTER" ELSE "SUMMER"

\* the four (dx, dy) of the diffusion loop
DiffusionDirs == {<<0, -1>>, <<1, 0>>, <<0, 1>>, <<-1, 0>>}

\* a[y][x] over rows 0..height-1 and columns 0..width-1
update_environment(a) ==
    LET height == Cardinality(DOMAIN a)
        width == Cardinality(DOMAIN a[0])
        diff(y, x, d) == DiffusionRate(a[y][x] - a[(y + d[2]) % height][(x + d[1]) % width])
        \* what cell (y, x) gives away in its own iterations
        out(y, x) == LET ds == DiffusionDirs
                         RECURSIVE Sum(_)
                         Sum(S) == IF S = {} THEN 0
                                   ELSE LET d == CHOOSE e \in S : TRUE
                                        IN  diff(y, x, d) + Sum(S \ {d})
                     IN  Sum(ds)
        \* what cell (y, x) receives in the iterations of its neighbours
        inc(y, x) == LET ds == DiffusionDirs
                         RECURSIVE Sum(_)
                         Sum(S) == IF S = {} THEN 0
                                   ELSE LET d == CHOOSE e \in S : TRUE
                                            sy == (y - d[2]) % height
                                            sx == (x - d[1]) % width
                                        IN  diff(sy, sx, d) + Sum(S \ {d})
                     IN  Sum(ds)
    IN  [y \in DOMAIN a |-> [x \in DOMAIN a[0] |->
            Max(Decay(a[y][x] - out(y, x) + inc(y, x)), 0)]]

(***************************************************************************)
(* Organisms (organisms/*.py).                                             *)
(***************************************************************************)
\* the manager attribute holding the live set of a class
ListOf(cls) == CASE cls = "Producer" -> "producers"
                 [] cls = "Herbivore" -> "herbivores"
                 [] cls = "Carnivore" -> "carnivores"
                 [] cls = "Omnivore" -> "omnivores"

MaxLifespan(cls) == CASE cls = "Herbivore" -> MAX_LIFESPAN_HERBIVORE
                      [] cls = "Carnivore" -> MAX_LIFESPAN_CARNIVORE
                      [] cls = "Omnivore" -> MAX_LIFESPAN_OMNIVORE

ReproThreshold(cls) == CASE cls = "Herbivore" -> HERBIVORE_REPRO_THRESHOLD
                         [] cls = "Carnivore" -> CARNIVORE_REPRO_THRESHOLD
                         [] cls = "Omnivore" -> OMNIVORE_REPRO_THRESHOLD

\* Producer.__init__
ProducerObject(x, y, energy, id) ==
    [cls |-> "Producer", x |-> x, y |-> y, energy |-> energy, id |-> id]

\* Herbivore.__init__, Carnivore.__init__, Omnivore.__init__
AnimalObject(cls, x, y, energy, genes, generation, id) ==
    [cls |-> cls, x |-> x, y |-> y, energy |-> energy, generation |-> generation,
     age |-> 0, max_lifespan |-> MaxLifespan(cls), repro_cooldown_timer |-> 0,
     disease_timer |-> 0, id |-> id, genes |-> genes, recent_cells |-> <<<<x, y>>>>]

\* constructing an object takes the class's next_id and appending it to the
\* live set of its class
Append_new(w, obj) ==
    LET a == Fresh(w.heap)
        lst == ListOf(obj.cls)
    IN  [w EXCEPT !.heap = New(w.heap, obj),
                  ![lst] = Append(w[lst], a),
                  !.next_id[obj.cls] = @ + 1]

is_dead(o) == o.energy <= 0
is_infected(o) == o.disease_timer > 0
speed(o) == o.genes[1]
metabolism(o) == o.genes[2]
vision(o) == o.genes[3]

\* ---- Producer ----
random_adjacent(o, dirs) == {<<(o.x + d[1]) % GRID_WIDTH, (o.y + d[2]) % GRID_HEIGHT>> : d \in dirs}

\* a test that finds every cell free
NoProducerOn(w, c) == FALSE
\* "any(p.x == nx and p.y == ny for p in producers)"
ProducerOn(w, c) == \E q \in Range(w.producers) : w.heap[q].x = c[1] /\ w.heap[q].y = c[2]

\* Producer.update: the set of worlds it can leave
ProducerUpdate(w, p) ==
    LET o == w.heap[p]
        x == o.x % GRID_WIDTH
        y == o.y % GRID_HEIGHT
        nutrient_taken == Min(EnvGet(w, y, x), PRODUCER_NUTRIENT_CONSUMPTION)
        gained == o.energy + ProducerEnergyGain(nutrient_taken)
        energy == IF gained > PRODUCER_MAX_ENERGY THEN PRODUCER_MAX_ENERGY ELSE gained
        w1 == EnvAdd([w EXCEPT !.heap[p].x = x, !.heap[p].y = y, !.heap[p].energy = energy],
                     y, x, -nutrient_taken)
        w2 == [w1 EXCEPT !.heap[p].energy = energy - PRODUCER_SEED_COST]
        seeded(c, en) ==
            IF ProducerOn(w2, c)
            THEN w2
            ELSE Append_new(w2, ProducerObject(c[1], c[2], en, w2.next_id["Producer"]))
    IN  IF energy > PRODUCER_SEED_COST
        THEN (IF FALSE \in w.rng.seed THEN {w1} ELSE {})
             \cup (IF TRUE \in w.rng.seed
                   THEN {seeded(c, en) : c \in random_adjacent(w1.heap[p], w.rng.adjacent),
                                         en \in w.rng.energy}
                   ELSE {})
        ELSE {w1}

\* ---- Animals: the methods the three classes share ----
cell_occupied(w, self, tx, ty, lst) ==
    \E b \in Range(w[lst]) : b /= self /\ w.heap[b].x = tx /\ w.heap[b].y = ty

\* a move_random whose proposals are not taken modulo the size of the grid
RandomMoveCellsOffGrid(o, directions) ==
    {c \in {<<o.x, o.y - 1>>} : "UP" \in directions}
    \cup {c \in {<<o.x, o.y + 1>>} : "DOWN" \in directions}
    \cup {c \in {<<o.x - 1, o.y>>} : "LEFT" \in directions}
    \cup {c \in {<<o.x + 1, o.y>>} : "RIGHT" \in directions}

\* the cells one random.choice(["UP","DOWN","LEFT","RIGHT"]) can propose
RandomMoveCells(o, directions) ==
    {c \in {<<o.x, (o.y - 1) % GRID_HEIGHT>>} : "UP" \in directions}
    \cup {c \in {<<o.x, (o.y + 1) % GRID_HEIGHT>>} : "DOWN" \in directions}
    \cup {c \in {<<(o.x - 1) % GRID_WIDTH, o.y>>} : "LEFT" \in directions}
    \cup {c \in {<<(o.x + 1) % GRID_WIDTH, o.y>>} : "RIGHT" \in directions}

\* move_random: up to 5 tries; the first free proposed cell is taken, and the
\* animal stays put only if all 5 proposals were occupied
move_random(w, self, lst) ==
    LET o == w.heap[self]
        cells == RandomMoveCells(o, w.rng.direction)
        free == {c \in cells : ~cell_occupied(w, self, c[1], c[2], lst)}
    IN  {[w EXCEPT !.heap[self].x = c[1], !.heap[self].y = c[2]] : c \in free}
            \cup (IF free /= cells THEN {w} ELSE {})

Sign(d) == IF d > 0 THEN 1 ELSE IF d < 0 THEN -1 ELSE 0

move_towards(w, self, dir, lst) ==
    LET o == w.heap[self]
        nx == (o.x + Sign(dir[1])) % GRID_WIDTH
        ny == (o.y + Sign(dir[2])) % GRID_HEIGHT
    IN  IF ~cell_occupied(w, self, nx, ny, lst)
        THEN {[w EXCEPT !.heap[self].x = nx, !.heap[self].y = ny]}
        ELSE move_random(w, self, lst)

\* find_nearest_*: the first element of refs at the least Manhattan distance
\* that is within vision; [found, dir, dist]
find_nearest(w, self, refs) ==
    LET o == w.heap[self]
        dist(i) == Abs(w.heap[refs[i]].x - o.x) + Abs(w.heap[refs[i]].y - o.y)
        seen == {i \in 1..Len(refs) : dist(i) <= vision(o)}
    IN  IF seen = {} THEN [found |-> FALSE, dir |-> <<0, 0>>, dist |-> 0]
        ELSE LET best == CHOOSE i \in seen :
                            \A j \in seen : dist(i) < dist(j) \/ (dist(i) = dist(j) /\ i <= j)
             IN  [found |-> TRUE,
                  dir |-> <<w.heap[refs[best]].x - o.x, w.heap[refs[best]].y - o.y>>,
                  dist |-> dist(best)]

\* check_and_eat_*: eat the first element of the prey list on the own cell;
\* [w, ate]
check_and_eat(w, self, prey, gain) ==
    LET o == w.heap[self]
        here == {i \in 1..Len(w[prey]) : w.heap[w[prey][i]].x = o.x /\ w.heap[w[prey][i]].y = o.y}
    IN  IF here = {} THEN [w |-> w, ate |-> FALSE]
        ELSE LET i == CHOOSE k \in here : \A j \in here : k <= j
             IN  [w |-> [w EXCEPT !.heap[self].energy = @ + gain, ![prey] = Pop(@, i)],
                  ate |-> TRUE]

\* move_cost = MOVE_COST_FACTOR * metabolism, times the drain when infected
move_cost(o) ==
    IF is_infected(o) THEN DiseaseDrain(MoveCostFactor(metabolism(o)))
    ELSE MoveCostFactor(metabolism(o))

Clamp(v, range) == Max(range[1], Min(range[2], v))

\* mutate_genes without the max/min lines
mutate_unclamped(g, m, ds, dm, dv) ==
    <<IF m[1] THEN g[1] + ds ELSE g[1],
      IF m[2] THEN g[2] + dm ELSE g[2],
      IF m[3] THEN g[3] + dv ELSE g[3]>>

\* mutate_genes for one outcome of its random calls: m tells which of the
\* three tests succeed, ds, dm and dv are the values drawn for the changes
mutate(g, m, ds, dm, dv) ==
    <<IF m[1] THEN Clamp(g[1] + ds, SPEED_RANGE) ELSE g[1],
      IF m[2] THEN Clamp(g[2] + dm, METABOLISM_RANGE) ELSE g[2],
      IF m[3] THEN Clamp(g[3] + dv, VISION_RANGE) ELSE g[3]>>

\* toolbox.mutate (mutate_genes)
mutate_genes(g, mutation) ==
    {mutate(g, m, ds, dm, dv) :
        m \in mutation, ds \in RandSpeedDelta, dm \in RandMetabolismDelta,
        dv \in RandVisionDelta}

\* energy / 2
ExactHalf(e) == e \div 2

\* energy // 2 on a float
FloorHalf(e) == (e \div 2000) * 1000

\* reproduce
reproduce(w, self) ==
    LET o == w.heap[self]
        child_energy == FloorHalf(o.energy)
        baby(g) == [AnimalObject(o.cls, o.x, o.y, child_energy, g, o.generation + 1,
                                 w.next_id[o.cls])
                       EXCEPT !.repro_cooldown_timer = REPRODUCTION_COOLDOWN]
    IN  {Append_new([w EXCEPT !.heap[self].energy = @ - child_energy,
                              !.heap[self].repro_cooldown_timer = REPRODUCTION_COOLDOWN],
                    baby(g)) : g \in mutate_genes(o.genes, w.rng.mutation)}

\* a baseline cost that leaves disease_timer alone
BaselineStaysInfected(w, self) ==
    LET o == w.heap[self]
        life_cost == IF is_infected(o) THEN DiseaseDrain(BASE_LIFE_COST) ELSE BASE_LIFE_COST
    IN  [w EXCEPT !.heap[self].energy = @ - life_cost,
                  !.heap[self].age = @ + 1,
                  !.heap[self].repro_cooldown_timer = IF @ > 0 THEN @ - 1 ELSE @]

\* the baseline cost at the start of update
Baseline(w, self) ==
    LET o == w.heap[self]
        life_cost == IF is_infected(o) THEN DiseaseDrain(BASE_LIFE_COST) ELSE BASE_LIFE_COST
    IN  [w EXCEPT !.heap[self].disease_timer = IF is_infected(o) THEN @ - 1 ELSE @,
                  !.heap[self].energy = @ - life_cost,
                  !.heap[self].age = @ + 1,
                  !.heap[self].repro_cooldown_timer = IF @ > 0 THEN @ - 1 ELSE @]

\* an update that pays no discovery bonus
NoDiscovery(w, self) == w

\* the discovery bonus
Discovery(w, self) ==
    LET o == w.heap[self]
        cells == Append(o.recent_cells, <<o.x, o.y>>)
    IN  IF DISCOVERY_BONUS > 0 /\ <<o.x, o.y>> \notin Range(o.recent_cells)
        THEN [w EXCEPT !.heap[self].energy = @ + DISCOVERY_BONUS,
                       !.heap[self].recent_cells =
                            IF Len(cells) > TRACK_CELL_HISTORY_LEN THEN Tail(cells) ELSE cells]
        ELSE w

\* a reproduction test that ignores the cooldown
ReproduceWhenFed(w, self) ==
    IF w.heap[self].energy >= ReproThreshold(w.heap[self].cls)
    THEN reproduce(w, self)
    ELSE {w}
\* the reproduction test that ends update
MaybeReproduce(w, self) ==
    LET o == w.heap[self]
    IN  IF o.energy >= ReproThreshold(o.cls) /\ o.repro_cooldown_timer = 0
        THEN reproduce(w, self)
        ELSE {w}

\* one step of a movement loop: pay the cost of the move just made
PayMove(w, self) == [w EXCEPT !.heap[self].energy = @ - move_cost(w.heap[self])]

\* where an animal class indexes the nutrient array when it releases
\* nutrients itself: environment[self.x, self.y] in Herbivore and Carnivore,
\* environment[self.y, self.x] in Omnivore
ReleaseInUpdate(w, self) ==
    LET o == w.heap[self]
    IN  IF o.cls = "Omnivore" THEN EnvAdd(w, o.y, o.x, CONSUMER_NUTRIENT_RELEASE)
        ELSE EnvAdd(w, o.x, o.y, CONSUMER_NUTRIENT_RELEASE)

\* check_and_eat_* calls made one after the other until one eats; preys is a
\* list of <<live set, gain>>
RECURSIVE EatFirst(_, _, _)
EatFirst(w, self, preys) ==
    IF preys = <<>> THEN [w |-> w, ate |-> FALSE]
    ELSE LET e == check_and_eat(w, self, preys[1][1], preys[1][2])
         IN  IF e.ate THEN e ELSE EatFirst(w, self, Tail(preys))

\* check_and_eat_* calls made one after the other, all of them
RECURSIVE EatAll(_, _, _)
EatAll(w, self, preys) ==
    IF preys = <<>> THEN w
    ELSE EatAll(check_and_eat(w, self, preys[1][1], preys[1][2]).w, self, Tail(preys))

\* "for _ in range(k)" of update: move (towards dir, or at random when
\* towards is FALSE), pay, die and release, or eat.  Eating ends the loop;
\* it ends the whole update when eat_returns.  The set of [w, done], done
\* meaning update has returned.
RECURSIVE MoveLoop(_, _, _, _, _, _, _)
MoveLoop(w, self, towards, dir, k, preys, eat_returns) ==
    IF k <= 0 THEN {[w |-> w, done |-> FALSE]}
    ELSE LET lst == ListOf(w.heap[self].cls)
             moves == IF towards THEN move_towards(w, self, dir, lst)
                      ELSE move_random(w, self, lst)
             after(v) ==
                LET v1 == PayMove(v, self)
                IN  IF v1.heap[self].energy <= 0
                    THEN {[w |-> ReleaseInUpdate(v1, self), done |-> TRUE]}
                    ELSE LET e == EatFirst(v1, self, preys)
                         IN  IF e.ate THEN {[w |-> e.w, done |-> eat_returns]}
                             ELSE MoveLoop(e.w, self, towards, dir, k - 1, preys, eat_returns)
         IN  UNION {after(v) : v \in moves}

\* the last branch of update: one random move, pay, die and release, or try
\* every check_and_eat_*
SingleMove(w, self, preys) ==
    LET lst == ListOf(w.heap[self].cls)
        after(v) ==
            LET v1 == PayMove(v, self)
            IN  IF v1.heap[self].energy <= 0
                THEN [w |-> ReleaseInUpdate(v1, self), done |-> TRUE]
                ELSE [w |-> EatAll(v1, self, preys), done |-> FALSE]
    IN  {after(v) : v \in move_random(w, self, lst)}

\* Herbivore.run_away
RECURSIVE run_away(_, _, _, _)
run_away(w, self, opp_dir, k) ==
    IF k <= 0 THEN {w}
    ELSE LET after(v) ==
                LET v1 == PayMove(v, self)
                IN  IF v1.heap[self].energy <= 0 THEN {v1}
                    ELSE run_away(v1, self, opp_dir, k - 1)
         IN  UNION {after(v) : v \in move_towards(w, self, opp_dir, "herbivores")}

\* dying of old age inside update
OldAge(w, self) == [ReleaseInUpdate(w, self) EXCEPT !.heap[self].energy = -1000]

\* the end of Herbivore.update and Carnivore.update: the discovery bonus and
\* the reproduction test, unless update has returned
Ended(moved, self) ==
    UNION {IF m.done THEN {m.w} ELSE MaybeReproduce(Discovery(m.w, self), self) : m \in moved}

\* ---- Herbivore.update ----
\* from "c_dir = self.find_nearest_carnivore(...)" to the last movement branch
HerbivoreMoves(w, self, c_dir, p_dir, food) ==
    IF c_dir.found
    THEN {[w |-> v, done |-> FALSE] :
            v \in run_away(w, self, <<-c_dir.dir[1], -c_dir.dir[2]>>, speed(w.heap[self]))}
    ELSE IF p_dir.found
    THEN MoveLoop(w, self, TRUE, p_dir.dir, speed(w.heap[self]), food, FALSE)
    ELSE IF w.heap[self].energy < CRITICAL_ENERGY
    THEN MoveLoop(w, self, FALSE, <<0, 0>>, Max(1, speed(w.heap[self])), food, FALSE)
    ELSE SingleMove(w, self, food)

\* update after the baseline cost
HerbivoreActs(w, self) ==
    IF w.heap[self].energy <= 0 THEN {w}
    ELSE IF w.heap[self].age > w.heap[self].max_lifespan THEN {OldAge(w, self)}
    ELSE Ended(HerbivoreMoves(w, self, find_nearest(w, self, w.carnivores \o w.omnivores),
                              find_nearest(w, self, w.producers),
                              <<<<"producers", EAT_GAIN_HERBIVORE>>>>),
               self)

HerbivoreUpdate(w0, self) == HerbivoreActs(Baseline(w0, self), self)

\* ---- Carnivore.update ----
CarnivoreMoves(w, self, h_dir, food) ==
    IF h_dir.found
    THEN MoveLoop(w, self, TRUE, h_dir.dir, speed(w.heap[self]), food, FALSE)
    ELSE IF w.heap[self].energy < CRITICAL_ENERGY
    THEN MoveLoop(w, self, FALSE, <<0, 0>>, Max(1, speed(w.heap[self])), food, FALSE)
    ELSE SingleMove(w, self, food)

CarnivoreActs(w, self) ==
    IF w.heap[self].energy <= 0 THEN {w}
    ELSE IF w.heap[self].age > w.heap[self].max_lifespan THEN {OldAge(w, self)}
    ELSE Ended(CarnivoreMoves(w, self, find_nearest(w, self, w.herbivores),
                              <<<<"herbivores", EAT_GAIN_CARNIVORE>>>>),
               self)

CarnivoreUpdate(w0, self) == CarnivoreActs(Baseline(w0, self), self)

\* ---- Omnivore ----
\* the three outcomes of an encounter with the first live carnivore on the
\* own cell
\* an encounter with the last carnivore found in the cell
encounter_with_the_last(w, self) ==
    LET o == w.heap[self]
        here == {i \in 1..Len(w.carnivores) :
                    /\ w.heap[w.carnivores[i]].x = o.x
                    /\ w.heap[w.carnivores[i]].y = o.y
                    /\ ~is_dead(w.heap[w.carnivores[i]])
                    /\ ~is_dead(o)}
    IN  IF here = {} THEN {w}
        ELSE LET i == CHOOSE k \in here : \A j \in here : k >= j
                 c == w.carnivores[i]
             IN  {[w EXCEPT !.heap[c].energy = @ + EAT_GAIN_CARNIVORE,
                            !.heap[self].energy = -1000],
                  [w EXCEPT !.heap[self].energy = @ + EAT_GAIN_OMNIVORE_ANIMAL,
                            !.carnivores = Pop(@, i)],
                  w}

check_carnivore_encounter(w, self) ==
    LET o == w.heap[self]
        here == {i \in 1..Len(w.carnivores) :
                    /\ w.heap[w.carnivores[i]].x = o.x
                    /\ w.heap[w.carnivores[i]].y = o.y
                    /\ ~is_dead(w.heap[w.carnivores[i]])
                    /\ ~is_dead(o)}
    IN  IF here = {} THEN {w}
        ELSE LET i == CHOOSE k \in here : \A j \in here : k <= j
                 c == w.carnivores[i]
             IN  {[w EXCEPT !.heap[c].energy = @ + EAT_GAIN_CARNIVORE,
                            !.heap[self].energy = -1000],
                  [w EXCEPT !.heap[self].energy = @ + EAT_GAIN_OMNIVORE_ANIMAL,
                            !.carnivores = Pop(@, i)],
                  w}

\* "if h_dir and p_dir: ... HERB if dist_h < dist_p else PLANT"
TargetType(h, p) ==
    IF h.found /\ p.found THEN (IF h.dist < p.dist THEN "HERB" ELSE "PLANT")
    ELSE IF h.found THEN "HERB"
    ELSE IF p.found THEN "PLANT"
    ELSE "NONE"

OmnivoreMoves(w, self, h, p, target_type, herb, plant) ==
    IF target_type = "HERB"
    THEN MoveLoop(w, self, TRUE, h.dir, speed(w.heap[self]), <<herb>>, FALSE)
    ELSE IF target_type = "PLANT"
    THEN MoveLoop(w, self, TRUE, p.dir, speed(w.heap[self]), <<plant>>, FALSE)
    ELSE IF w.heap[self].energy < CRITICAL_ENERGY
    THEN MoveLoop(w, self, FALSE, <<0, 0>>, Max(1, speed(w.heap[self])), <<herb, plant>>, TRUE)
    ELSE SingleMove(w, self, <<herb, plant>>)

\* "if not self.is_dead(): self.check_carnivore_encounter(...)"
Encounter(v1, self) ==
    IF v1.heap[self].energy > 0 THEN check_carnivore_encounter(v1, self) ELSE {v1}

\* the end of Omnivore.update: the discovery bonus, the encounter and the
\* reproduction test, unless update has returned
OmnivoreEnded(moved, self) ==
    UNION {IF m.done THEN {m.w}
           ELSE UNION {MaybeReproduce(v2, self) : v2 \in Encounter(Discovery(m.w, self), self)} :
                m \in moved}

OmnivoreTargets(w, self, h, p) ==
    OmnivoreMoves(w, self, h, p, TargetType(h, p),
                  <<"herbivores", EAT_GAIN_OMNIVORE_ANIMAL>>,
                  <<"producers", EAT_GAIN_OMNIVORE_PLANT>>)

OmnivoreActs(w, self) ==
    IF w.heap[self].energy <= 0 THEN {w}
    ELSE IF w.heap[self].age > w.heap[self].max_lifespan THEN {OldAge(w, self)}
    ELSE OmnivoreEnded(OmnivoreTargets(w, self, find_nearest(w, self, w.herbivores),
                                       find_nearest(w, self, w.producers)),
                       self)

OmnivoreUpdate(w00, self) ==
    OmnivoreActs(Baseline([w00 EXCEPT !.heap[self].x = @ % GRID_WIDTH,
                                      !.heap[self].y = @ % GRID_HEIGHT], self),
                 self)

(***************************************************************************)
(* Disease and border spawn (simulation/environment.py).                   *)
(***************************************************************************)
\* the infection without the test of disease_timer
InfectAnyway(w, a) ==
    (IF TRUE \in w.rng.infect
     THEN {[w EXCEPT !.heap[a].disease_timer = DISEASE_DURATION]} ELSE {})
        \cup (IF FALSE \in w.rng.infect THEN {w} ELSE {})

\* "if all_animals[idx].disease_timer == 0 and random.random() < 0.7:
\*      all_animals[idx].disease_timer = DISEASE_DURATION"
Infect(w, a) ==
    IF w.heap[a].disease_timer = 0
    THEN (IF TRUE \in w.rng.infect
          THEN {[w EXCEPT !.heap[a].disease_timer = DISEASE_DURATION]} ELSE {})
            \cup (IF FALSE \in w.rng.infect THEN {w} ELSE {})
    ELSE {w}

\* the loop of disease_outbreak over the pool all_animals
RECURSIVE DiseaseLoop(_, _, _)
DiseaseLoop(w, pool, k) ==
    IF k <= 0 \/ pool = <<>> THEN {w}
    ELSE UNION {UNION {DiseaseLoop(v, Pop(pool, idx), k - 1) : v \in Infect(w, pool[idx])}
                : idx \in 1..Len(pool)}

disease_outbreak(w) ==
    LET all_animals == w.herbivores \o w.carnivores \o w.omnivores
        max_infections == Min(5, (Len(all_animals) \div 5) + 1)
    IN  IF all_animals = <<>> THEN {w} ELSE DiseaseLoop(w, all_animals, max_infections)

BorderCells ==
    {<<x, 0>> : x \in 0..(GRID_WIDTH - 1)} \cup {<<GRID_WIDTH - 1, y>> : y \in 0..(GRID_HEIGHT - 1)}
        \cup {<<x, GRID_HEIGHT - 1>> : x \in 0..(GRID_WIDTH - 1)}
        \cup {<<0, y>> : y \in 0..(GRID_HEIGHT - 1)}

random_border_cell(cells) == BorderCells \cap cells

spawn_random_organism_on_border(w, season) ==
    LET cells == random_border_cell(w.rng.cell)
        spawned(kind, c) ==
            CASE kind = "producer" ->
                    {Append_new(w, ProducerObject(c[1], c[2], 10000, w.next_id["Producer"]))}
              [] kind = "herbivore" ->
                    {Append_new(w, AnimalObject("Herbivore", c[1], c[2], 15000, g, 0,
                                                w.next_id["Herbivore"])) : g \in w.rng.genome}
              [] kind = "carnivore" ->
                    {Append_new(w, AnimalObject("Carnivore", c[1], c[2], 20000, g, 0,
                                                w.next_id["Carnivore"])) : g \in w.rng.genome}
              [] kind = "omnivore" ->
                    {Append_new(w, AnimalObject("Omnivore", c[1], c[2], 15000, g, 0,
                                                w.next_id["Omnivore"])) : g \in w.rng.genome}
    IN  {w} \* "if random.random() > spawn_chance: return"
        \cup UNION {spawned(kind, c) : kind \in w.rng.kind, c \in cells}

(***************************************************************************)
(* SimulationManager: the passes of a tick (simulation/manager.py).        *)
(***************************************************************************)
\* outcomes of the random source that stay within the population bound
Bounded(S) == {w \in S : Population(w) <= MaxOrganisms}

\* a pass that filters nothing out
Everyone(w, lst) == w[lst]

\* "[x for x in lst if not x.is_dead()]"
Alive(w, lst) == SelectSeq(w[lst], LAMBDA a : ~is_dead(w.heap[a]))

\* "for p in self.producers: p.update(...)": the list grows while it is
\* iterated, and the new elements are visited too
RECURSIVE ProducersLoop(_, _)
ProducersLoop(w, i) ==
    IF i > Len(w.producers) THEN {w}
    ELSE UNION {ProducersLoop(v, i + 1) : v \in Bounded(ProducerUpdate(w, w.producers[i]))}

update_producers(w) ==
    {[v EXCEPT !.producers = Alive(v, "producers")] : v \in ProducersLoop(w, 1)}

AnimalUpdate(w, self) ==
    CASE w.heap[self].cls = "Herbivore" -> HerbivoreUpdate(w, self)
      [] w.heap[self].cls = "Carnivore" -> CarnivoreUpdate(w, self)
      [] w.heap[self].cls = "Omnivore" -> OmnivoreUpdate(w, self)

\* the loop of _update_herbivores, _update_carnivores, _update_omnivores
RECURSIVE AnimalsLoop(_, _, _)
AnimalsLoop(w, lst, i) ==
    IF i > Len(w[lst]) THEN {w}
    ELSE LET self == w[lst][i]
             oldx == w.heap[self].x
             oldy == w.heap[self].y
             after(v) == IF is_dead(v.heap[self])
                         THEN EnvAdd(v, oldy, oldx, CONSUMER_NUTRIENT_RELEASE)
                         ELSE v
         IN  UNION {AnimalsLoop(after(v), lst, i + 1) : v \in Bounded(AnimalUpdate(w, self))}

update_animals(w, lst) ==
    {[v EXCEPT ![lst] = Alive(v, lst)] : v \in AnimalsLoop(w, lst, 1)}

\* the passes of step_simulation over the animal lists lsts, one after the
\* other, over every world the passes before can leave
RECURSIVE UpdateAll(_, _)
UpdateAll(S, lsts) ==
    IF lsts = <<>> THEN S
    ELSE UpdateAll(UNION {update_animals(v, Head(lsts)) : v \in S}, Tail(lsts))

\* "if random.random() < DISEASE_CHANCE_PER_TURN: disease_outbreak(...)"
MaybeOutbreak(S, disease) ==
    {v \in S : FALSE \in disease}
        \cup UNION {disease_outbreak(v) : v \in {u \in S : TRUE \in disease}}

\* "if random.random() < spawn_chance: spawn_random_organism_on_border(...)"
MaybeSpawn(S, spawn, season) ==
    {v \in S : FALSE \in spawn}
        \cup UNION {Bounded(spawn_random_organism_on_border(v, season)) :
                        v \in {u \in S : TRUE \in spawn}}

\* "update_environment(self.environment)"
Diffused(S) == {[v EXCEPT !.heap[v.environment].a = update_environment(@)] : v \in S}

\* step_simulation from "Update all organisms" to "Update the environment"
Tick(w, step) ==
    Diffused(MaybeSpawn(
        MaybeOutbreak(
            UpdateAll(update_producers(w), <<"herbivores", "carnivores", "omnivores">>),
            w.rng.disease),
        w.rng.spawn, current_season(step)))

(***************************************************************************)
(* History (simulation/history.py).                                        *)
(***************************************************************************)
\* "copy.deepcopy(lst)" of one organism list into the field of a snapshot or
\* of the manager: acc is [heap, st]
CopyInto(acc, refs, field) ==
    LET c == DeepCopyList(acc.heap, refs)
    IN  [heap |-> c.heap, st |-> [acc.st EXCEPT ![field] = c.refs]]

\* "np.copy(environment)" into the snapshot
CopyEnvironment(acc, env) ==
    [heap |-> New(acc.heap, acc.heap[env]), st |-> [acc.st EXCEPT !.environment = Fresh(acc.heap)]]

\* SimulationState.__init__: [heap, st]
SimulationState(h, t, w) ==
    CopyEnvironment(
        CopyInto(CopyInto(CopyInto(CopyInto(
            [heap |-> h,
             st |-> [t |-> t, producers |-> <<>>, herbivores |-> <<>>, carnivores |-> <<>>,
                     omnivores |-> <<>>, environment |-> w.environment]],
            w.producers, "producers"), w.herbivores, "herbivores"),
            w.carnivores, "carnivores"), w.omnivores, "omnivores"),
        w.environment)

\* store_state: the world with the snapshot appended to history
Stored(w, s) == [w EXCEPT !.heap = s.heap, !.history = Append(@, s.st)]
store_state(w, t) == Stored(w, SimulationState(w.heap, t, w))

\* "np.copyto(sim.environment, self.environment)"
CopyTo(acc, env) == [acc EXCEPT !.heap[acc.st.environment] = acc.heap[env]]

\* load_state_into_sim
Loaded(w, acc) ==
    [w EXCEPT !.heap = acc.heap,
              !.producers = acc.st.producers, !.herbivores = acc.st.herbivores,
              !.carnivores = acc.st.carnivores, !.omnivores = acc.st.omnivores]
load_state_into_sim(w, state) ==
    Loaded(w, CopyTo(
        CopyInto(CopyInto(CopyInto(CopyInto(
            [heap |-> w.heap,
             st |-> [producers |-> <<>>, herbivores |-> <<>>, carnivores |-> <<>>,
                     omnivores |-> <<>>, environment |-> w.environment]],
            state.producers, "producers"), state.herbivores, "herbivores"),
            state.carnivores, "carnivores"), state.omnivores, "omnivores"),
        state.environment))

(***************************************************************************)
(* MemoryResidentSimulationStore (memory_storage.py) and HDF5Storage        *)
(* (hdf5_storage.py).  Python values: a list is PyList(seq), a numpy array  *)
(* NdArray(seq, dtype), a bytes object Bytes(s), an int or a str itself, a  *)
(* dict the function of its keys.  None is NoTimestep as current_timestep,  *)
(* NoParent as parent_id and NoneValue where a list is expected.            *)
(***************************************************************************)
PyList(s) == [list |-> s]
NdArray(s, dtype) == [ndarray |-> s, dtype |-> dtype]
Bytes(s) == [bytes |-> s]
IsList(v) == DOMAIN v = {"list"}
NoneValue == [none |-> TRUE]
NoTimestep == -1
NoParent == "<None>"
EmptyDict == [k \in {} |-> TRUE]

\* d[k] = v on a dict
Put(d, k, v) == [x \in (DOMAIN d) \cup {k} |-> IF x = k THEN v ELSE d[x]]
\* d.setdefault(k, v): the dict
SetDefault(d, k, v) == IF k \in DOMAIN d THEN d ELSE Put(d, k, v)
\* [f(org) for org in organisms]
ListOver(organisms, f(_)) == PyList([i \in 1..Len(organisms) |-> f(organisms[i])])

\* what a method of the store leaves: the store, the value returned, the
\* exception raised
StoreReturned(s, ret) == [s |-> s, ret |-> ret, raised |-> "none"]
StoreRaised(s, exc) == [s |-> s, ret |-> "none", raised |-> exc]

\* MemoryResidentSimulationStore.__init__
NewStore(mode) == [mode |-> mode, states |-> EmptyDict, current_timestep |-> NoTimestep]

MaxKey(S) == CHOOSE t \in S : \A u \in S : u <= t

is_last_stored_step(s) ==
    IF DOMAIN s.states = {} THEN FALSE
    ELSE s.current_timestep = MaxKey(DOMAIN s.states)

update_mode_based_on_state(s) ==
    [s EXCEPT !.mode = IF is_last_stored_step(s) THEN "live" ELSE "replay"]

\* "self.states.setdefault(timestep, {})[key] = value; self.current_timestep
\*  = timestep; self.update_mode_based_on_state()"
UpdatePiece(s, timestep, key, value) ==
    update_mode_based_on_state(
        [s EXCEPT !.states = Put(@, timestep, Put(SetDefault(@, timestep, EmptyDict)[timestep],
                                                  key, value)),
                  !.current_timestep = timestep])

ParentId(org) == IF org.parent_id /= NoParent THEN org.parent_id ELSE "None"
PositionOf(org) == PyList(<<org.x, org.y>>)
EnergyOf(org) == org.energy
SpeedOf(org) == org.speed
GenerationOf(org) == org.generation
SpeciesOf(org) == org.species
IdOf(org) == org.id

\* update_state from "population_data = {" on
StoreState(s, timestep, board, organisms, debug_logs) ==
    StoreReturned(
        update_mode_based_on_state(
            [s EXCEPT !.states = Put(@, timestep,
                    [board |-> board,
                     population |-> [positions |-> ListOver(organisms, PositionOf),
                                     energy |-> ListOver(organisms, EnergyOf),
                                     speed |-> ListOver(organisms, SpeedOf),
                                     generation |-> ListOver(organisms, GenerationOf),
                                     debug_logs |-> debug_logs],
                     species_names |-> ListOver(organisms, SpeciesOf),
                     lineage |-> [organism_ids |-> ListOver(organisms, IdOf),
                                  parent_ids |-> ListOver(organisms, ParentId)],
                     debug_logs |-> debug_logs]),
                      !.current_timestep = timestep]),
        "none")

\* an update_state that takes the state whatever the mode
update_state_any_mode(s, timestep, board, organisms, debug_logs) ==
    StoreState(s, timestep, board, organisms, debug_logs)

update_state(s, timestep, board, organisms, debug_logs) ==
    IF s.mode /= "live" THEN StoreRaised(s, "RuntimeError")
    ELSE StoreState(s, timestep, board, organisms, debug_logs)

update_board(s, timestep, board) == StoreReturned(UpdatePiece(s, timestep, "board", board), "none")

update_population(s, timestep, population_data, species_names) ==
    StoreReturned(
        UpdatePiece([s EXCEPT !.states =
                        Put(@, timestep, Put(SetDefault(@, timestep, EmptyDict)[timestep],
                                             "population",
                                             SetDefault(population_data, "debug_logs", NoneValue)))],
                    timestep, "species_names", species_names),
        "none")

update_lineage(s, timestep, lineage) ==
    StoreReturned(UpdatePiece(s, timestep, "lineage", lineage), "none")

update_debug_logs(s, timestep, debug_logs) ==
    StoreReturned(UpdatePiece(s, timestep, "debug_logs", debug_logs), "none")

\* One statement of add_organism or remove_organism on the state dict of a
\* tick: acc is [state, raised], and nothing runs once an exception is raised.
\* path is <<key>> or <<key, key>>.
HasPath(state, path) ==
    /\ path[1] \in DOMAIN state
    /\ Len(path) = 2 => path[2] \in DOMAIN state[path[1]]
AtPath(state, path) == IF Len(path) = 1 THEN state[path[1]] ELSE state[path[1]][path[2]]
WithPath(state, path, v) ==
    IF Len(path) = 1 THEN Put(state, path[1], v)
    ELSE Put(state, path[1], Put(state[path[1]], path[2], v))

\* "<path>.append(value)"
AppendAt(acc, path, value) ==
    IF acc.raised /= "none" THEN acc
    ELSE IF ~HasPath(acc.state, path) THEN [acc EXCEPT !.raised = "KeyError"]
    ELSE IF ~IsList(AtPath(acc.state, path)) THEN [acc EXCEPT !.raised = "AttributeError"]
    ELSE [acc EXCEPT !.state = WithPath(@, path,
                                        PyList(Append(AtPath(@, path).list, value)))]

\* "<path>.pop(index)" with an index >= 0
PopAt(acc, path, index) ==
    IF acc.raised /= "none" THEN acc
    ELSE IF ~HasPath(acc.state, path) THEN [acc EXCEPT !.raised = "KeyError"]
    ELSE IF ~IsList(AtPath(acc.state, path)) THEN [acc EXCEPT !.raised = "AttributeError"]
    ELSE IF index >= Len(AtPath(acc.state, path).list) THEN [acc EXCEPT !.raised = "IndexError"]
    ELSE [acc EXCEPT !.state = WithPath(@, path, PyList(Pop(AtPath(@, path).list, index + 1)))]

\* "<dict>.setdefault(key, value)" on the state dict
DefaultAt(acc, key, value) == [acc EXCEPT !.state = SetDefault(@, key, value)]

\* the store once the statements on the state of timestep have run
Mutated(s, timestep, acc) ==
    [s |-> [s EXCEPT !.states = Put(@, timestep, acc.state)], ret |-> "none",
     raised |-> acc.raised]

\* the population add_organism makes when the state has none
NewPopulation(state) ==
    [positions |-> PyList(<<>>), energy |-> PyList(<<>>), speed |-> PyList(<<>>),
     generation |-> PyList(<<>>),
     debug_logs |-> IF "debug_logs" \in DOMAIN state THEN state.debug_logs ELSE PyList(<<>>)]

add_organism(s, timestep, organism) ==
    Mutated(s, timestep,
        AppendAt(AppendAt(
            DefaultAt(
                AppendAt(
                    DefaultAt(
                        AppendAt(AppendAt(AppendAt(AppendAt(
                            [state |-> SetDefault(
                                        SetDefault(s.states, timestep, EmptyDict)[timestep],
                                        "population",
                                        NewPopulation(SetDefault(s.states, timestep,
                                                                 EmptyDict)[timestep])),
                             raised |-> "none"],
                            <<"population", "positions">>, PositionOf(organism)),
                            <<"population", "energy">>, organism.energy),
                            <<"population", "speed">>, organism.speed),
                            <<"population", "generation">>, organism.generation),
                        "species_names", PyList(<<>>)),
                    <<"species_names">>, organism.species),
                "lineage", [organism_ids |-> PyList(<<>>), parent_ids |-> PyList(<<>>)]),
            <<"lineage", "organism_ids">>, organism.id),
            <<"lineage", "parent_ids">>, ParentId(organism)))

remove_organism(s, timestep, organism_index) ==
    IF timestep \notin DOMAIN s.states \/ "population" \notin DOMAIN s.states[timestep]
    THEN StoreRaised(s, "ValueError")
    ELSE Mutated(s, timestep,
            PopAt(PopAt(PopAt(PopAt(PopAt(PopAt(PopAt(
                [state |-> s.states[timestep], raised |-> "none"],
                <<"population", "positions">>, organism_index),
                <<"population", "energy">>, organism_index),
                <<"population", "speed">>, organism_index),
                <<"population", "generation">>, organism_index),
                <<"species_names">>, organism_index),
                <<"lineage", "organism_ids">>, organism_index),
                <<"lineage", "parent_ids">>, organism_index))

\* ---- HDF5Storage: the file is NoFile or the dict of its groups ----
NoFile == [exists |-> FALSE, groups |-> EmptyDict]

\* np.array(..., dtype=np.int8) on ints
Int8(x) == ((x + 128) % 256) - 128
\* a str written with h5py.string_dtype and read back
Utf8(x) == Bytes(x)
ArrayOver(l, f(_), dtype) == NdArray([i \in 1..Len(l.list) |-> f(l.list[i])], dtype)
\* the cast of a float (in thousandths) to an integer: towards zero
Truncated(v) == IF v >= 0 THEN v \div 1000 ELSE -((-v) \div 1000)
\* one row of "np.array(board, dtype=np.int8)": the cells of a board are
\* numbers in thousandths
Int8Row(row) == [j \in 1..Len(row) |-> Int8(Truncated(row[j]))]
PositionArray(org) == <<org.x, org.y>>

\* save_gameboard, save_population and save_lineage: the group of the tick
SavedGroup(board, organisms, debug_logs) ==
    [gameboard |-> ArrayOver(board, Int8Row, "int8"),
     positions |-> ArrayOver(PyList(organisms), PositionArray,
                             IF organisms = <<>> THEN "float64" ELSE "int64"),
     energy |-> ArrayOver(PyList(organisms), EnergyOf,
                          IF organisms = <<>> THEN "float64" ELSE "int64"),
     speed |-> ArrayOver(PyList(organisms), SpeedOf, "float64"),
     generation |-> ArrayOver(PyList(organisms), GenerationOf,
                              IF organisms = <<>> THEN "float64" ELSE "int64"),
     species_names |-> ArrayOver(ListOver(organisms, SpeciesOf), Utf8, "object"),
     debug_logs |-> ArrayOver(debug_logs, Utf8, "object"),
     lineage |-> [organism_ids |-> ArrayOver(ListOver(organisms, IdOf), Utf8, "object"),
                  parent_ids |-> ArrayOver(ListOver(organisms, ParentId), Utf8, "object")]]

\* a save that keeps the datasets a group already has
save_once(file, timestep, board, organisms, debug_logs) ==
    [exists |-> TRUE, groups |-> SetDefault(file.groups, timestep,
                                            SavedGroup(board, organisms, debug_logs))]

save_simulation_state(file, timestep, board, organisms, debug_logs) ==
    [exists |-> TRUE, groups |-> Put(file.groups, timestep,
                                     SavedGroup(board, organisms, debug_logs))]

\* _extract_state, as the dict load_from_longterm makes of the tuple
ExtractedState(group) ==
    [board |-> group.gameboard,
     population |-> [positions |-> group.positions, energy |-> group.energy,
                     speed |-> group.speed, generation |-> group.generation,
                     debug_logs |-> group.debug_logs],
     species_names |-> group.species_names,
     lineage |-> group.lineage,
     debug_logs |-> group.debug_logs]

\* load_from_longterm; h5py.File(filename, "r") raises OSError when the file
\* does not exist
load_from_longterm(s, file, timestep) ==
    IF ~file.exists THEN StoreRaised(s, "OSError")
    ELSE IF timestep \notin DOMAIN file.groups THEN StoreReturned(s, "None")
    ELSE StoreReturned(
            update_mode_based_on_state(
                [s EXCEPT !.states = Put(@, timestep, ExtractedState(file.groups[timestep])),
                          !.current_timestep = timestep]),
            "state")

(***************************************************************************)
(* SimulationManager: the operations (simulation/manager.py).  Each gives  *)
(* the outcomes [m, ret, raised] of a call on the manager m.               *)
(***************************************************************************)
Returned(m, ret) == [m |-> Collect(m), ret |-> ret, raised |-> "none"]
Raised(m, exc) == [m |-> Collect(m), ret |-> "none", raised |-> exc]

\* ConfigManager.get_step_skip
get_step_skip == 1

\* the entry _store_population_stats appends (the counts; the trait
\* averages are functions of the live sets)
PopulationStats(m) ==
    [step |-> m.current_step, producers |-> Len(m.producers),
     herbivores |-> Len(m.herbivores), carnivores |-> Len(m.carnivores),
     omnivores |-> Len(m.omnivores)]

store_population_stats(m) ==
    [m EXCEPT !.population_history = Append(@, PopulationStats(m))]

\* _store_current_state.  update_state is called with the keywords
\* producers=, herbivores=, carnivores=, omnivores=, which
\* MemoryResidentSimulationStore.update_state(timestep, board, organisms,
\* debug_logs) does not accept: the call raises TypeError once the snapshot
\* has been appended.
Updated(m1, step) ==
    IF step > 0
    THEN [m |-> m1, raised |-> "TypeError"]
    ELSE [m |-> m1, raised |-> "none"]
\* a snapshot that carries the number of the tick before
store_previous_state(m) == Updated(store_state(m, m.current_step - 1), m.current_step)
store_current_state(m) == Updated(store_state(m, m.current_step), m.current_step)

\* step_simulation after "self.current_step += 1": st is what
\* _store_current_state left
Display(st, should_display) ==
    IF st.raised /= "none" THEN Raised(st.m, st.raised)
    ELSE Returned([store_population_stats(st.m) EXCEPT
                        !.step_counter = IF should_display THEN 0 ELSE @],
                  should_display)
Advance(m1) == Display(store_current_state(m1), m1.step_counter >= get_step_skip)

step_simulation(m) ==
    IF m.current_step >= MAX_TIMESTEPS THEN {Returned(m, FALSE)}
    ELSE {Advance([v EXCEPT !.current_step = @ + 1, !.step_counter = @ + 1]) :
            v \in Tick(m, m.current_step)}

\* "load_state_into_sim(self.history[self.current_step], self)"
\* a move of the cursor that loads nothing
LoadNothing(m1) == m1
Load(m1) == load_state_into_sim(m1, m1.history[m1.current_step + 1])

\* a step_back that tests "current_step >= 0": at tick 0 it loads history[-1]
step_back_below_zero(m) ==
    IF m.current_step > 0
    THEN Returned([Load([m EXCEPT !.current_step = @ - 1]) EXCEPT !.is_replaying = TRUE], TRUE)
    ELSE Returned([load_state_into_sim([m EXCEPT !.current_step = @ - 1],
                                       m.history[Len(m.history)])
                        EXCEPT !.is_replaying = TRUE], TRUE)

step_back(m) ==
    IF m.current_step > 0
    THEN Returned([Load([m EXCEPT !.current_step = @ - 1]) EXCEPT !.is_replaying = TRUE], TRUE)
    ELSE Returned(m, FALSE)

\* a step_forward that leaves the flag as the load set it
StaysReplaying(m2) == [m2 EXCEPT !.is_replaying = TRUE]

\* "self.is_replaying = True" and then
\* "if self.current_step == len(self.history) - 1: self.is_replaying = False"
AtTip(m2) == [m2 EXCEPT !.is_replaying = (m2.current_step /= Len(m2.history) - 1)]

step_forward(m) ==
    IF m.current_step < Len(m.history) - 1
    THEN Returned(AtTip(Load([m EXCEPT !.current_step = @ + 1])), TRUE)
    ELSE Returned(m, FALSE)

\* the populations _initialize_organisms builds in the model: the positions
\* and energies drawn for the configured counts, in the order of construction
HerbivoreAndProducer ==
    <<[cls |-> "Producer", x |-> 0, y |-> 0, energy |-> 5000],
      [cls |-> "Herbivore", x |-> 0, y |-> 1, energy |-> 25000]>>
CarnivoreAndHerbivore ==
    <<[cls |-> "Herbivore", x |-> 1, y |-> 1, energy |-> 5000],
      [cls |-> "Carnivore", x |-> 0, y |-> 0, energy |-> 15000]>>
OmnivoreAndProducer ==
    <<[cls |-> "Producer", x |-> 1, y |-> 0, energy |-> 15000],
      [cls |-> "Omnivore", x |-> 0, y |-> 0, energy |-> 5000]>>
LoneProducer ==
    <<[cls |-> "Producer", x |-> 1, y |-> 1, energy |-> 5000]>>

InitialPopulations ==
    {HerbivoreAndProducer, CarnivoreAndHerbivore, OmnivoreAndProducer, LoneProducer}

\* the random source that goes with each initial population
RandomFor(drawn) ==
    CASE drawn = HerbivoreAndProducer -> Quiet
      [] drawn = CarnivoreAndHerbivore -> Epidemic
      [] drawn = OmnivoreAndProducer -> Spawning
      [] drawn = LoneProducer -> Seeding

RECURSIVE Populate(_, _)
Populate(m, drawn) ==
    IF drawn = <<>> THEN {m}
    ELSE LET d == drawn[1]
         IN  IF d.cls = "Producer"
             THEN Populate(Append_new(m, ProducerObject(d.x, d.y, d.energy, m.next_id["Producer"])),
                           Tail(drawn))
             ELSE UNION {Populate(Append_new(m, AnimalObject(d.cls, d.x, d.y, d.energy, g, 0,
                                                             m.next_id[d.cls])),
                                  Tail(drawn)) : g \in m.rng.genome}

initialize_organisms(m, drawn) == Populate(m, drawn)

\* np.full((rows, cols), INITIAL_NUTRIENT_LEVEL)
Full(rows, cols) ==
    [cls |-> "ndarray", a |-> [i \in 0..(rows - 1) |-> [j \in 0..(cols - 1) |-> INITIAL_NUTRIENT_LEVEL]]]

\* SimulationManager.__init__
Construct(drawn, random) ==
    LET m0 == [heap |-> (0 :> Full(GRID_WIDTH, GRID_HEIGHT)), environment |-> 0,
               producers |-> <<>>, herbivores |-> <<>>, carnivores |-> <<>>,
               omnivores |-> <<>>, next_id |-> [k \in Kinds |-> 0], history |-> <<>>,
               current_step |-> 0, is_paused |-> FALSE, is_replaying |-> FALSE,
               step_counter |-> 0, population_history |-> <<>>,
               memory_store |-> NewStore("live"), rng |-> random]
    IN  {Collect(store_population_stats(store_current_state(m1).m)) :
            m1 \in initialize_organisms(m0, drawn)}

\* SimulationManager.reset
reset(m) ==
    LET e == Fresh(m.heap)
        m0 == [m EXCEPT !.next_id = [k \in Kinds |-> 0],
                        !.heap = New(m.heap, Full(GRID_HEIGHT, GRID_WIDTH)),
                        !.environment = e,
                        !.producers = <<>>, !.herbivores = <<>>,
                        !.carnivores = <<>>, !.omnivores = <<>>,
                        !.current_step = 0, !.is_paused = FALSE, !.is_replaying = FALSE,
                        !.history = <<>>, !.population_history = <<>>,
                        !.memory_store = NewStore("live")]
    IN  {Returned(store_population_stats(store_current_state(m1).m), "none") :
            m1 \in UNION {initialize_organisms(m0, drawn) :
                            drawn \in {d \in InitialPopulations : RandomFor(d) = m.rng}}}

(***************************************************************************)
(* InputHandler (ui/input_handler.py).                                     *)
(***************************************************************************)
handle_step_back(m) == step_back([m EXCEPT !.is_paused = TRUE])

\* "self.sim.step_forward() or (self.sim.current_step ==
\*  len(self.sim.history) - 1 and self.sim.step_simulation())"
\* a handler that never runs a tick
OrNothing(f) == {f}

OrStepSimulation(f) ==
    IF f.ret = TRUE THEN {f}
    ELSE IF f.m.current_step = Len(f.m.history) - 1 THEN step_simulation(f.m)
    ELSE {f}
handle_step_forward(m) == OrStepSimulation(step_forward([m EXCEPT !.is_paused = TRUE]))

(***************************************************************************)
(* Bookkeeping for sequences of step_back calls followed by step_forward   *)
(* calls: the live state, field for field, before the sequence began.      *)
(***************************************************************************)
Image(m) ==
    [producers |-> Deref(m.heap, m.producers), herbivores |-> Deref(m.heap, m.herbivores),
     carnivores |-> Deref(m.heap, m.carnivores), omnivores |-> Deref(m.heap, m.omnivores),
     environment |-> m.heap[m.environment].a, current_step |-> m.current_step]

Idle == [backs |-> 0, fwds |-> 0, before |-> "none"]

AfterBack(pr, m, ok) ==
    IF ~ok THEN Idle
    ELSE IF pr.backs > 0 /\ pr.fwds = 0 THEN [pr EXCEPT !.backs = @ + 1]
    ELSE [backs |-> 1, fwds |-> 0, before |-> Image(m)]

AfterForward(pr, ok) ==
    IF ok /\ pr.fwds < pr.backs THEN [pr EXCEPT !.fwds = @ + 1] ELSE Idle

(***************************************************************************)
(* The specification of the manager.                                       *)
(***************************************************************************)
SetManager(m) ==
    /\ heap' = m.heap
    /\ environment' = m.environment
    /\ producers' = m.producers
    /\ herbivores' = m.herbivores
    /\ carnivores' = m.carnivores
    /\ omnivores' = m.omnivores
    /\ next_id' = m.next_id
    /\ history' = m.history
    /\ current_step' = m.current_step
    /\ is_paused' = m.is_paused
    /\ is_replaying' = m.is_replaying
    /\ step_counter' = m.step_counter
    /\ population_history' = m.population_history
    /\ memory_store' = m.memory_store
    /\ rng' = m.rng

Set(m) ==
    /\ SetManager(m)
    \* hdf5_store is never written: save_state is not reached
    /\ UNCHANGED <<longterm, calls, updated>>

Called(op, r) == last_call' = [op |-> op, ret |-> r.ret, raised |-> r.raised]

Init ==
    /\ \E drawn \in InitialPopulations : \E m \in Construct(drawn, RandomFor(drawn)) :
        /\ rng = m.rng
        /\ heap = m.heap
        /\ environment = m.environment
        /\ producers = m.producers
        /\ herbivores = m.herbivores
        /\ carnivores = m.carnivores
        /\ omnivores = m.omnivores
        /\ next_id = m.next_id
        /\ history = m.history
        /\ current_step = m.current_step
        /\ is_paused = m.is_paused
        /\ is_replaying = m.is_replaying
        /\ step_counter = m.step_counter
        /\ population_history = m.population_history
        /\ memory_store = m.memory_store
    /\ last_call = [op |-> "__init__", ret |-> "none", raised |-> "none"]
    /\ probe = Idle
    /\ longterm = NoFile
    /\ calls = 0
    /\ updated = -1

\* a behaviour of the model runs at most MaxSteps ticks
WithinSteps(r) == r.m.step_counter <= MaxSteps

StepSimulation ==
    \E r \in step_simulation(Self) :
        /\ WithinSteps(r)
        /\ Set(r.m)
        /\ Called("step_simulation", r)
        /\ probe' = Idle

StepBack ==
    \E r \in {step_back(Self)} :
        /\ Set(r.m)
        /\ Called("step_back", r)
        /\ probe' = AfterBack(probe, Self, r.ret)

StepForward ==
    \E r \in {step_forward(Self)} :
        /\ Set(r.m)
        /\ Called("step_forward", r)
        /\ probe' = AfterForward(probe, r.ret)

Reset ==
    \E r \in reset(Self) :
        /\ Set(r.m)
        /\ Called("reset", r)
        /\ probe' = Idle

HandleStepBack ==
    \E r \in {handle_step_back(Self)} :
        /\ Set(r.m)
        /\ Called("handle_step_back", r)
        /\ probe' = AfterBack(probe, Self, r.ret)

HandleStepForward ==
    \E r \in handle_step_forward(Self) :
        /\ WithinSteps(r)
        /\ Set(r.m)
        /\ Called("handle_step_forward", r)
        /\ probe' = IF Len(r.m.history) = Len(history) THEN AfterForward(probe, r.ret) ELSE Idle

Next ==
    \/ StepSimulation
    \/ StepBack
    \/ StepForward
    \/ Reset
    \/ HandleStepBack
    \/ HandleStepForward

Spec == Init /\ [][Next]_vars

(***************************************************************************)
(* Worlds.  A manager built with no organisms, to whose live sets the      *)
(* organisms of a world are appended one by one, as the tests do.  An      *)
(* organism is given by its class, cell, energy, genes, age and            *)
(* disease_timer; the other attributes are those of its __init__.          *)
(***************************************************************************)
NoGenes == <<0, 0, 0>>
Plant(x, y, energy) ==
    [cls |-> "Producer", x |-> x, y |-> y, energy |-> energy, genes |-> NoGenes,
     age |-> 0, disease_timer |-> 0]
Animal(cls, x, y, energy, genes) ==
    [cls |-> cls, x |-> x, y |-> y, energy |-> energy, genes |-> genes,
     age |-> 0, disease_timer |-> 0]
\* an animal that has lived its max_lifespan ticks
Old(d) == [d EXCEPT !.age = MaxLifespan(d.cls)]
\* an animal that disease_outbreak has infected
Infected(d) == [d EXCEPT !.disease_timer = DISEASE_DURATION]
\* an animal that disease_outbreak has infected one tick ago
Ailing(d) == [d EXCEPT !.disease_timer = DISEASE_DURATION - 1]

\* "Producer(x, y, energy)" or "Herbivore(x, y, energy, genes)" (Carnivore,
\* Omnivore), then the assignments of age and disease_timer
Built(d, id) ==
    IF d.cls = "Producer" THEN ProducerObject(d.x, d.y, d.energy, id)
    ELSE [AnimalObject(d.cls, d.x, d.y, d.energy, d.genes, 0, id)
            EXCEPT !.age = d.age, !.disease_timer = d.disease_timer]

\* "sim.<live set>.append(<organism>)" for each organism of the world
RECURSIVE PlaceAll(_, _)
PlaceAll(m, world) ==
    IF world = <<>> THEN m
    ELSE PlaceAll(Append_new(m, Built(world[1], m.next_id[world[1].cls])), Tail(world))

\* genes <<speed, metabolism, vision>>
Walker == <<1, 1000, 3>>
ShortSighted == <<1, 1000, 1>>
Runner == <<2, 1000, 2>>

\* the example of the specification, on this grid: a producer and, one cell
\* south of it, a herbivore
ExampleWorld == <<Plant(1, 1, 10000), Animal("Herbivore", 1, 2, 20000, Walker)>>
\* animals that the baseline cost starves
StarvingWorld ==
    <<Animal("Herbivore", 0, 0, 1000, Walker), Animal("Carnivore", 2, 2, 1500, Walker),
      Animal("Omnivore", 2, 0, 1200, ShortSighted)>>
\* a herbivore that the cost of its step towards the producer starves
LastStepWorld == <<Plant(1, 1, 10000), Animal("Herbivore", 1, 2, 1700, Walker)>>
\* a carnivore and an omnivore that the cost of their step starves
LastHuntWorld ==
    <<Animal("Herbivore", 0, 1, 20000, ShortSighted), Animal("Carnivore", 2, 1, 1700, Walker),
      Plant(2, 2, 10000), Animal("Omnivore", 2, 0, 1700, Runner)>>
\* a herbivore that the cost of its flight starves
FlightWorld ==
    <<Animal("Herbivore", 1, 2, 1700, Walker), Animal("Carnivore", 1, 1, 20000, ShortSighted)>>
\* animals at the end of their lifespan
OldWorld ==
    <<Old(Animal("Herbivore", 0, 0, 20000, ShortSighted)),
      Old(Animal("Carnivore", 2, 2, 20000, ShortSighted)),
      Old(Animal("Omnivore", 0, 2, 20000, ShortSighted))>>
\* animals with the energy to reproduce
FertileHerbivore == <<Animal("Herbivore", 0, 0, 29700, Walker)>>
FertileCarnivore == <<Animal("Carnivore", 1, 1, 30000, Runner)>>
FertileOmnivore == <<Animal("Omnivore", 2, 2, 31500, ShortSighted)>>
\* a carnivore next to a herbivore
HuntWorld ==
    <<Animal("Herbivore", 0, 1, 20000, ShortSighted), Animal("Carnivore", 0, 0, 20000, Walker)>>
\* an omnivore with a herbivore and a producer in sight: at the same
\* distance, the herbivore closer, the producer closer
TieWorld ==
    <<Plant(1, 2, 10000), Animal("Herbivore", 1, 0, 20000, ShortSighted),
      Animal("Omnivore", 1, 1, 20000, Walker)>>
HerbivoreCloser ==
    <<Plant(1, 1, 10000), Animal("Herbivore", 0, 1, 20000, ShortSighted),
      Animal("Omnivore", 0, 0, 20000, Walker)>>
ProducerCloser ==
    <<Plant(0, 1, 10000), Animal("Herbivore", 1, 1, 20000, ShortSighted),
      Animal("Omnivore", 0, 0, 20000, Walker)>>
\* an omnivore with a carnivore one cell away
EncounterWorld ==
    <<Animal("Carnivore", 1, 0, 20000, ShortSighted),
      Animal("Omnivore", 0, 0, 20000, ShortSighted)>>
\* an omnivore with a herbivore and a producer on the cell west of it across
\* the edge of the grid, out of its sight
AcrossTheEdge ==
    <<Plant(GRID_WIDTH - 1, 0, 10000),
      Animal("Herbivore", GRID_WIDTH - 1, 0, 20000, ShortSighted),
      Animal("Omnivore", 0, 0, 20000, ShortSighted)>>
\* an omnivore one cell west of a cell that holds two carnivores
PackWorld ==
    <<Animal("Carnivore", 1, 0, 20000, ShortSighted), Animal("Carnivore", 1, 0, 18000, Walker),
      Animal("Omnivore", 0, 0, 20000, ShortSighted)>>
\* a hungry omnivore with nothing in sight
HungryWorld ==
    <<Plant(GRID_WIDTH - 1, 0, 10000), Animal("Omnivore", 0, 0, 7000, ShortSighted)>>
\* infected animals
SickWorld ==
    <<Infected(Animal("Herbivore", 2, 1, 2100, ShortSighted)),
      Infected(Animal("Carnivore", 0, 1, 20000, ShortSighted))>>
\* a herbivore one step west, across the edge, of a cell where organisms spawn
BorderWorld == <<Animal("Herbivore", GRID_WIDTH - 1, 0, 20000, ShortSighted)>>
\* herbivores side by side
CrowdedWorld ==
    <<Animal("Herbivore", 0, 0, 20000, ShortSighted),
      Animal("Herbivore", 1, 0, 20000, ShortSighted)>>
\* a producer that can seed
SeedingWorld == <<Plant(GRID_WIDTH - 1, GRID_HEIGHT - 1, 15000)>>

\* five animals, one of them infected: an outbreak tries two of them
HerdWorld ==
    <<Animal("Herbivore", 0, 0, 20000, ShortSighted),
      Ailing(Animal("Herbivore", 1, 0, 20000, ShortSighted)),
      Animal("Herbivore", 2, 0, 20000, ShortSighted),
      Animal("Carnivore", 0, 2, 20000, ShortSighted),
      Animal("Omnivore", 2, 2, 20000, ShortSighted)>>

Worlds ==
    {ExampleWorld, StarvingWorld, LastStepWorld, LastHuntWorld, FlightWorld, OldWorld,
     FertileHerbivore, FertileCarnivore, FertileOmnivore, HuntWorld, TieWorld,
     HerbivoreCloser, ProducerCloser, EncounterWorld, PackWorld, AcrossTheEdge, HungryWorld,
     SickWorld, BorderWorld, CrowdedWorld, SeedingWorld}

\* two herbivores that random.randint puts on the same cell
CollidingDraw ==
    <<[cls |-> "Herbivore", x |-> 1, y |-> 1, energy |-> 10000],
      [cls |-> "Herbivore", x |-> 1, y |-> 1, energy |-> 12000]>>

\* the managers a behaviour of ticks starts from: the organisms of a world
\* appended to an empty manager, or a manager that drew its organisms itself
\* the random source that goes with each world
RandomIn(world) ==
    CASE world = ExampleWorld -> Eventful
      [] world = SeedingWorld -> Sowing
      [] world = BorderWorld -> Settling
      [] world \in {CrowdedWorld, SickWorld} -> Epidemic
      [] OTHER -> Roaming

Managers ==
    UNION {{PlaceAll(m, world) : m \in Construct(<<>>, RandomIn(world))} : world \in Worlds}
        \cup Construct(CollidingDraw, Roaming)

(***************************************************************************)
(* The specification of the ticks of a world.                              *)
(***************************************************************************)
InitTick ==
    /\ \E m \in Managers :
        /\ rng = m.rng
        /\ heap = m.heap
        /\ environment = m.environment
        /\ producers = m.producers
        /\ herbivores = m.herbivores
        /\ carnivores = m.carnivores
        /\ omnivores = m.omnivores
        /\ next_id = m.next_id
        /\ history = m.history
        /\ current_step = m.current_step
        /\ is_paused = m.is_paused
        /\ is_replaying = m.is_replaying
        /\ step_counter = m.step_counter
        /\ population_history = m.population_history
        /\ memory_store = m.memory_store
    /\ last_call = [op |-> "__init__", ret |-> "none", raised |-> "none"]
    /\ probe = Idle
    /\ longterm = NoFile
    /\ calls = 0
    /\ updated = -1

NextTick == StepSimulation

SpecTick == InitTick /\ [][NextTick]_vars

(***************************************************************************)
(* The specification of the calls on the organisms of a world: update and  *)
(* reproduce on one organism, and the passes of the manager over a live    *)
(* set.  The objects keep their addresses, so that an organism can be      *)
(* looked at before and after the call.                                    *)
(***************************************************************************)
InitUpdate ==
    /\ \E world \in Worlds \cup {HerdWorld} :
       \E m0 \in Construct(<<>>, Wild) : \E m \in {PlaceAll(m0, world)} :
        /\ rng = m.rng
        /\ heap = m.heap
        /\ environment = m.environment
        /\ producers = m.producers
        /\ herbivores = m.herbivores
        /\ carnivores = m.carnivores
        /\ omnivores = m.omnivores
        /\ next_id = m.next_id
        /\ history = m.history
        /\ current_step = m.current_step
        /\ is_paused = m.is_paused
        /\ is_replaying = m.is_replaying
        /\ step_counter = m.step_counter
        /\ population_history = m.population_history
        /\ memory_store = m.memory_store
    /\ last_call = [op |-> "__init__", ret |-> "none", raised |-> "none"]
    /\ probe = Idle
    /\ longterm = NoFile
    /\ calls = 0
    /\ updated = -1

\* the call op, made on the organism at address self (-1: on the manager),
\* has left the world w
OrganismCalled(op, self, w) ==
    /\ calls < MaxUpdates
    /\ calls' = calls + 1
    /\ SetManager(w)
    /\ updated' = self
    /\ last_call' = [op |-> op, ret |-> "none", raised |-> "none"]
    /\ UNCHANGED <<longterm, probe>>

UpdateProducer ==
    \E self \in Range(producers) : \E w \in Bounded(ProducerUpdate(Self, self)) :
        OrganismCalled("Producer.update", self, w)

UpdateHerbivore ==
    \E self \in Range(herbivores) : \E w \in Bounded(HerbivoreUpdate(Self, self)) :
        OrganismCalled("Herbivore.update", self, w)

UpdateCarnivore ==
    \E self \in Range(carnivores) : \E w \in Bounded(CarnivoreUpdate(Self, self)) :
        OrganismCalled("Carnivore.update", self, w)

UpdateOmnivore ==
    \E self \in Range(omnivores) : \E w \in Bounded(OmnivoreUpdate(Self, self)) :
        OrganismCalled("Omnivore.update", self, w)

Reproduce ==
    \E self \in Range(herbivores \o carnivores \o omnivores) :
        \E w \in Bounded(reproduce(Self, self)) :
            OrganismCalled("reproduce", self, w)

UpdateHerbivores ==
    \E w \in update_animals(Self, "herbivores") : OrganismCalled("_update_herbivores", -1, w)

UpdateCarnivores ==
    \E w \in update_animals(Self, "carnivores") : OrganismCalled("_update_carnivores", -1, w)

UpdateOmnivores ==
    \E w \in update_animals(Self, "omnivores") : OrganismCalled("_update_omnivores", -1, w)

DiseaseOutbreak ==
    \E w \in disease_outbreak(Self) : OrganismCalled("disease_outbreak", -1, w)

NextUpdate ==
    \/ DiseaseOutbreak
    \/ UpdateProducer
    \/ UpdateHerbivore
    \/ UpdateCarnivore
    \/ UpdateOmnivore
    \/ Reproduce
    \/ UpdateHerbivores
    \/ UpdateCarnivores
    \/ UpdateOmnivores

SpecUpdate == InitUpdate /\ [][NextUpdate]_vars

(***************************************************************************)
(* The specification of a MemoryResidentSimulationStore and an HDF5Storage *)
(* on their own: the calls a caller can make, with these arguments.        *)
(***************************************************************************)
Timesteps == 0..MaxStoreTick
Board1 == PyList(<<<<0, 1000>>, <<1000, 0>>>>)
Board2 == PyList(<<<<2000, 2000>>, <<2000, 2000>>>>)
Org1 == [x |-> 1, y |-> 1, energy |-> 10, speed |-> 1000, generation |-> 0,
         species |-> "A", id |-> "org0001", parent_id |-> NoParent]
Org2 == [x |-> 2, y |-> 2, energy |-> 8, speed |-> 1200, generation |-> 1,
         species |-> "B", id |-> "org0002", parent_id |-> "org0001"]
PopulationData1 ==
    [positions |-> PyList(<<PyList(<<3, 3>>)>>), energy |-> PyList(<<7>>),
     speed |-> PyList(<<1000>>), generation |-> PyList(<<2>>),
     debug_logs |-> PyList(<<"given">>)]
Lineage1 == [organism_ids |-> PyList(<<"org0003">>), parent_ids |-> PyList(<<"None">>)]

managerVars == <<heap, environment, producers, herbivores, carnivores, omnivores,
                 history, current_step, is_paused, is_replaying, step_counter,
                 population_history, next_id, rng, probe, updated>>

InitStore ==
    /\ \E mode \in {"live", "replay"} : memory_store = NewStore(mode)
    /\ longterm = NoFile
    /\ calls = 0
    /\ last_call = [op |-> "__init__", ret |-> "none", raised |-> "none"]
    \* no manager
    /\ heap = <<>> /\ environment = 0
    /\ producers = <<>> /\ herbivores = <<>> /\ carnivores = <<>> /\ omnivores = <<>>
    /\ history = <<>> /\ current_step = 0 /\ is_paused = FALSE /\ is_replaying = FALSE
    /\ step_counter = 0 /\ population_history = <<>>
    /\ next_id = [k \in Kinds |-> 0] /\ rng = Quiet /\ probe = Idle /\ updated = -1

\* a call on the store that left r
StoreCalled(op, r) ==
    /\ calls < MaxCalls
    /\ calls' = calls + 1
    /\ memory_store' = r.s
    /\ last_call' = [op |-> op, ret |-> r.ret, raised |-> r.raised]
    /\ UNCHANGED managerVars

UpdateState ==
    \E t \in Timesteps, organisms \in {<<>>, <<Org1>>} :
        /\ StoreCalled("update_state",
                       update_state(memory_store, t, Board1, organisms, PyList(<<"log">>)))
        /\ UNCHANGED longterm

UpdateBoard ==
    \E t \in Timesteps :
        /\ StoreCalled("update_board", update_board(memory_store, t, Board2))
        /\ UNCHANGED longterm

UpdatePopulation ==
    \E t \in Timesteps :
        /\ StoreCalled("update_population",
                       update_population(memory_store, t, PopulationData1, PyList(<<"C">>)))
        /\ UNCHANGED longterm

UpdateLineage ==
    \E t \in Timesteps :
        /\ StoreCalled("update_lineage", update_lineage(memory_store, t, Lineage1))
        /\ UNCHANGED longterm

UpdateDebugLogs ==
    \E t \in Timesteps :
        /\ StoreCalled("update_debug_logs",
                       update_debug_logs(memory_store, t, PyList(<<"later">>)))
        /\ UNCHANGED longterm

AddOrganism ==
    \E t \in Timesteps :
        /\ StoreCalled("add_organism", add_organism(memory_store, t, Org2))
        /\ UNCHANGED longterm

RemoveOrganism ==
    \E t \in Timesteps, organism_index \in {0, 1} :
        /\ StoreCalled("remove_organism", remove_organism(memory_store, t, organism_index))
        /\ UNCHANGED longterm

LoadFromLongterm ==
    \E t \in Timesteps :
        /\ StoreCalled("load_from_longterm", load_from_longterm(memory_store, longterm, t))
        /\ UNCHANGED longterm

SaveSimulationState ==
    \E t \in Timesteps :
        /\ StoreCalled("save_simulation_state", StoreReturned(memory_store, "none"))
        /\ longterm' = save_simulation_state(longterm, t, Board1, <<Org1>>, PyList(<<"saved">>))

NextStore ==
    \/ UpdateState
    \/ UpdateBoard
    \/ UpdatePopulation
    \/ UpdateLineage
    \/ UpdateDebugLogs
    \/ AddOrganism
    \/ RemoveOrganism
    \/ LoadFromLongterm
    \/ SaveSimulationState

SpecStore == InitStore /\ [][NextStore]_vars

(***************************************************************************)
(* Properties of the manager.                                              *)
(***************************************************************************)
\* a snapshot, field for field
SnapshotImage(h, st) ==
    [t |-> st.t, producers |-> Deref(h, st.producers), herbivores |-> Deref(h, st.herbivores),
     carnivores |-> Deref(h, st.carnivores), omnivores |-> Deref(h, st.omnivores),
     environment |-> h[st.environment].a]

\* the four sets and the environment of the manager or of a snapshot x,
\* field for field
Fields(h, x) ==
    [producers |-> Deref(h, x.producers), herbivores |-> Deref(h, x.herbivores),
     carnivores |-> Deref(h, x.carnivores), omnivores |-> Deref(h, x.omnivores),
     environment |-> h[x.environment].a]

\* C1: after N successful step_back calls followed by N successful
\* step_forward calls, with nothing else in between, the four live sets, the
\* environment and current_step are what they were before the sequence.
C1_ReplayIdempotence ==
    (probe.backs > 0 /\ probe.fwds = probe.backs) => Image(Self) = probe.before

\* C2: step_simulation called while the cursor is behind the last snapshot
\* (and under the tick limit) reports an error and leaves history,
\* current_step, the live sets and the environment unchanged.
C2_Rejected ==
    /\ last_call'.raised /= "none"
    /\ Len(history') = Len(history)
    /\ \A i \in 1..Len(history) :
            SnapshotImage(heap', history'[i]) = SnapshotImage(heap, history[i])
    /\ Image(Self)' = Image(Self)
C2_TickInReplayFails ==
    [][(/\ last_call'.op = "step_simulation"
        /\ current_step < Len(history) - 1
        /\ current_step < MAX_TIMESTEPS) => C2_Rejected]_vars

\* C3: the snapshot at every index i of history (counted from 0) has t = i.
C3_TickIndexed == \A i \in 1..Len(history) : history[i].t = i - 1

\* C4: is_replaying is FALSE exactly when the cursor is on the last snapshot
\* and TRUE exactly when it is behind it.
C4_FlagFollowsCursor ==
    /\ ~is_replaying <=> current_step = Len(history) - 1
    /\ is_replaying <=> current_step < Len(history) - 1
\* step_forward has just moved the cursor onto the last snapshot
C4_Witness ==
    /\ last_call.op = "step_forward" /\ last_call.ret = TRUE
    /\ current_step = Len(history) - 1 /\ ~is_replaying

\* C8: a step-forward request at the last snapshot, under the tick limit, runs
\* one tick: history grows by one snapshot (the one of the new live state),
\* current_step grows by 1 and the manager stays live.  A request made
\* behind the last snapshot advances the cursor by 1 and loads the snapshot
\* stored there, and history stays as it is.
C8_Kept ==
    \A i \in 1..Len(history) :
        SnapshotImage(heap', history'[i]) = SnapshotImage(heap, history[i])
C8_NewTick ==
    /\ Len(history') = Len(history) + 1
    /\ C8_Kept
    /\ current_step' = current_step + 1
    /\ step_counter' = step_counter + 1
    /\ ~is_replaying'
    /\ history'[Len(history')].t = current_step'
    /\ Fields(heap', history'[Len(history')]) = Fields(heap, Self)'
C8_Advance ==
    /\ Len(history') = Len(history)
    /\ C8_Kept
    /\ current_step' = current_step + 1
    /\ step_counter' = step_counter
    /\ Fields(heap, Self)' = Fields(heap, history[current_step + 2])
C8_StepForwardRequest ==
    [][last_call'.op = "handle_step_forward" =>
        /\ (current_step = Len(history) - 1 /\ current_step < MAX_TIMESTEPS) => C8_NewTick
        /\ current_step < Len(history) - 1 => C8_Advance]_vars
\* the request has just run a tick at the last snapshot
C8_Witness ==
    /\ last_call.op = "handle_step_forward" /\ last_call.raised = "TypeError"
    /\ current_step = Len(history) - 1 /\ Len(history) > 1

\* C9: at current_step >= MAX_TIMESTEPS step_simulation returns False and
\* changes neither history, current_step, the live sets nor the environment;
\* and current_step <= MAX_TIMESTEPS in every reachable state.
C9_NoOp ==
    /\ last_call'.ret = FALSE /\ last_call'.raised = "none"
    /\ Len(history') = Len(history)
    /\ C8_Kept
    /\ Image(Self)' = Image(Self)
C9_NoOpAtLimit ==
    /\ [][(last_call'.op = "step_simulation" /\ current_step >= MAX_TIMESTEPS)
            => C9_NoOp]_vars
    /\ [](current_step <= MAX_TIMESTEPS)

\* C10: no step_simulation, step_back or step_forward changes a field of an
\* organism or a cell of the environment of a snapshot that is in history.
C10_SnapshotsKept ==
    [][last_call'.op /= "reset" =>
        \A i \in 1..Len(history) :
            /\ i <= Len(history')
            /\ SnapshotImage(heap', history'[i]) = SnapshotImage(heap, history[i])]_vars
\* a tick has just been run on a live state loaded from a snapshot
C10_Witness ==
    /\ last_call.op = "step_simulation" /\ last_call.raised = "TypeError"
    /\ current_step < Len(history) - 1

\* C11: step_back called with current_step = 0 returns False and leaves
\* current_step, is_replaying, history, the live sets and the environment
\* as they were.
C11_StepBackAtZero ==
    [][(last_call'.op = "step_back" /\ current_step = 0) =>
        /\ last_call'.ret = FALSE
        /\ last_call'.raised = "none"
        /\ is_replaying' = is_replaying
        /\ Len(history') = Len(history)
        /\ \A i \in 1..Len(history) :
                SnapshotImage(heap', history'[i]) = SnapshotImage(heap, history[i])
        /\ Image(Self)' = Image(Self)]_vars
\* step_back has just returned False at tick 0 of a history that holds later snapshots
C11_Witness ==
    /\ last_call.op = "step_back" /\ last_call.ret = FALSE
    /\ current_step = 0 /\ Len(history) > 1

(***************************************************************************)
(* Properties of the store.                                                *)
(***************************************************************************)
\* C5: once the store holds a state, its mode is "live" exactly when
\* current_timestep is the highest tick recorded in states, and "replay"
\* otherwise.
C5_ModeDerived ==
    DOMAIN memory_store.states /= {} =>
        /\ memory_store.mode \in {"live", "replay"}
        /\ memory_store.mode = "live"
                <=> memory_store.current_timestep = MaxKey(DOMAIN memory_store.states)

\* C6: update_state on a store in replay mode raises RuntimeError and leaves
\* states, current_timestep and mode as they were.
C6_UpdateInReplayRaises ==
    [][(last_call'.op = "update_state" /\ memory_store.mode = "replay") =>
        /\ last_call'.raised = "RuntimeError"
        /\ memory_store' = memory_store]_vars
\* update_state has just raised on a store that holds states and is in replay
C6_Witness ==
    /\ last_call.op = "update_state" /\ last_call.raised = "RuntimeError"
    /\ memory_store.mode = "replay" /\ DOMAIN memory_store.states /= {}

\* C7: add_organism and remove_organism on a store in replay mode report an
\* error and leave the recorded state of every tick as it was.
C7_DirectChangeInReplayFails ==
    [][(last_call'.op \in {"add_organism", "remove_organism"}
            /\ memory_store.mode = "replay") =>
        /\ last_call'.raised /= "none"
        /\ memory_store'.states = memory_store.states]_vars

(***************************************************************************)
(* Properties of the ticks.                                                *)
(***************************************************************************)
AnimalLists == {"herbivores", "carnivores", "omnivores"}
\* the snapshots recorded after a tick
AfterTick == {i \in 1..Len(history) : history[i].t >= 1}

\* C12: in every snapshot recorded after a tick, no live set holds an
\* organism with energy <= 0 and no animal is older than the maximum
\* lifespan of its kind.
C12_NoDeadInSnapshot ==
    \A i \in AfterTick :
        /\ \A a \in Range(history[i].producers) : heap[a].energy > 0
        /\ \A lst \in AnimalLists : \A a \in Range(history[i][lst]) :
                /\ heap[a].energy > 0
                /\ heap[a].age <= MaxLifespan(heap[a].cls)
\* the snapshot of a tick in which the herbivore, the carnivore and the
\* omnivore of the world died: none was eaten, none is in the snapshot
C12_Witness ==
    /\ last_call.op = "step_simulation" /\ AfterTick /= {}
    /\ \A k \in {"Herbivore", "Carnivore", "Omnivore"} : next_id[k] = 1
    /\ \A i \in AfterTick : \A lst \in AnimalLists : history[i][lst] = <<>>

\* no two animals of the list lst are on the same cell
Exclusive(lst) ==
    \A i, j \in 1..Len(lst) :
        i /= j => <<heap[lst[i]].x, heap[lst[i]].y>> /= <<heap[lst[j]].x, heap[lst[j]].y>>

\* C13: in the initial state and after any tick, no two live animals of the
\* same kind are on the same cell.
C13_OccupancyExclusive ==
    Exclusive(herbivores) /\ Exclusive(carnivores) /\ Exclusive(omnivores)

OnGrid(o) == o.x \in 0..(GRID_WIDTH - 1) /\ o.y \in 0..(GRID_HEIGHT - 1)

\* C14: in every reachable state every organism, live or recorded in a
\* snapshot, is on the grid: 0 <= x < width and 0 <= y < height.
C14_OnGrid ==
    \A a \in DOMAIN heap : heap[a].cls \in Kinds => OnGrid(heap[a])
\* a herbivore that stood on the east edge has stepped east and is on the
\* west edge; a producer in the south-east corner has seeded the north-west
\* corner
C14_Witness ==
    \/ \E a \in Range(herbivores) :
            /\ heap[a].recent_cells = <<<<GRID_WIDTH - 1, 0>>, <<0, 0>>>>
            /\ heap[a].x = 0 /\ heap[a].y = 0
    \/ /\ Len(producers) = 2
       /\ <<heap[producers[1]].x, heap[producers[1]].y>> = <<GRID_WIDTH - 1, GRID_HEIGHT - 1>>
       /\ <<heap[producers[2]].x, heap[producers[2]].y>> = <<0, 0>>

\* the live sets hold exactly the organisms of ExampleWorld, as built
InExampleWorld ==
    /\ current_step = 0
    /\ Deref(heap, producers) = <<Built(ExampleWorld[1], 0)>>
    /\ Deref(heap, herbivores) = <<Built(ExampleWorld[2], 0)>>
    /\ carnivores = <<>> /\ omnivores = <<>>
\* the herbivore of ExampleWorld is on the producer's cell, with the energy
\* of one step, one meal and one new cell
ExampleHerbivoreFed(h, lst) ==
    \E a \in Range(lst) :
        /\ h[a].id = 0
        /\ <<h[a].x, h[a].y>> = <<ExampleWorld[1].x, ExampleWorld[1].y>>
        /\ h[a].energy = ExampleWorld[2].energy - BASE_LIFE_COST
                            - MoveCostFactor(ExampleWorld[2].genes[2])
                            + EAT_GAIN_HERBIVORE + DISCOVERY_BONUS

Animals == Range(herbivores \o carnivores \o omnivores)
UpdateOf(cls) == CASE cls = "Herbivore" -> "Herbivore.update"
                   [] cls = "Carnivore" -> "Carnivore.update"
                   [] cls = "Omnivore" -> "Omnivore.update"
PassOf(cls) == CASE cls = "Herbivore" -> "_update_herbivores"
                 [] cls = "Carnivore" -> "_update_carnivores"
                 [] cls = "Omnivore" -> "_update_omnivores"
\* the step leaves the animal at address a on another cell
Moves(a) == <<heap'[a].x, heap'[a].y>> /= <<heap[a].x, heap[a].y>>
\* the healthy live animal at address a has its energy at or below 0 during
\* the update of this step: after the baseline cost, or after the cost of the
\* step it takes
Starves(a) ==
    /\ heap[a].energy > 0 /\ heap[a].disease_timer = 0
    /\ \/ heap[a].energy - BASE_LIFE_COST <= 0
       \/ Moves(a) /\ heap[a].energy - BASE_LIFE_COST - MoveCostFactor(metabolism(heap[a])) <= 0

\* C16: an animal whose energy becomes <= 0 during its update (after the
\* baseline cost or after a step) ends the update with energy <= 0, having
\* eaten nothing and not reproduced, and the pass of its kind removes it.
C16_DeathIsTerminal ==
    [][\A a \in Animals : Starves(a) =>
        /\ (last_call'.op = UpdateOf(heap[a].cls) /\ updated' = a) =>
                /\ heap'[a].energy <= 0
                /\ next_id' = next_id
                /\ producers' = producers
        /\ last_call'.op = PassOf(heap[a].cls) => a \notin Range(Self[ListOf(heap[a].cls)]')]_vars

\* the nutrients of the cell of row r and column c, in the world w
Nutrients(w, r, c) == w.heap[w.environment].a[r][c]
\* the animals of the list lst that the step leaves dead on the cell (x, y)
DeadOn(lst, x, y) ==
    {a \in Range(lst) : heap'[a].energy <= 0 /\ heap'[a].x = x /\ heap'[a].y = y}
\* the pass of the manager named op over the list lst, all of them alive,
\* adds to each cell CONSUMER_NUTRIENT_RELEASE for each animal of the list
\* that it leaves dead on that cell
ReleasesOnce(op, lst) ==
    (last_call'.op = op /\ \A a \in Range(lst) : heap[a].energy > 0) =>
        \A x \in 0..(GRID_WIDTH - 1), y \in 0..(GRID_HEIGHT - 1) :
            Nutrients(Self, y, x)' - Nutrients(Self, y, x)
                = CONSUMER_NUTRIENT_RELEASE * Cardinality(DeadOn(lst, x, y))

\* C17: a pass of the manager over the herbivores, the carnivores or the
\* omnivores adds to the environment exactly CONSUMER_NUTRIENT_RELEASE for
\* each animal of the pass that dies in it (of the baseline cost, while
\* moving, of old age or in a carnivore encounter), in the cell where it
\* died, and nothing anywhere else.
C17_ReleasedOnce ==
    [][/\ ReleasesOnce("_update_herbivores", herbivores)
       /\ ReleasesOnce("_update_carnivores", carnivores)
       /\ ReleasesOnce("_update_omnivores", omnivores)]_vars

\* the live set of the class cls, in this state and in the next
OwnList(cls) == Self[ListOf(cls)]
OwnListAfter(cls) == Self'[ListOf(cls)]
\* the last element of the list lst of the next state
Last(lst) == heap'[lst[Len(lst)]]
\* e is floor(E / 2), energies being counted in thousandths
IsFloorOfHalf(e, E) == e % 1000 = 0 /\ 2 * e <= E /\ E < 2 * e + 2000

\* C18: reproduce() on a parent of energy E appends to the live set of the
\* parent's kind one child with energy floor(E/2) and generation one more
\* than the parent's, and leaves the parent with E - floor(E/2).
C18_ReproductionSplit ==
    [][last_call'.op = "reproduce" =>
        LET parent == heap[updated']
            lst == OwnListAfter(parent.cls)
        IN  /\ Len(lst) = Len(OwnList(parent.cls)) + 1
            /\ SubSeq(lst, 1, Len(lst) - 1) = OwnList(parent.cls)
            /\ Last(lst).cls = parent.cls
            /\ IsFloorOfHalf(Last(lst).energy, parent.energy)
            /\ heap'[updated'].energy = parent.energy - Last(lst).energy
            /\ Last(lst).energy + heap'[updated'].energy = parent.energy
            /\ Last(lst).generation = parent.generation + 1]_vars
\* reproduce has just been called on a herbivore whose energy was not a
\* whole even number: the child has the whole part of the half
C18_Witness ==
    /\ last_call.op = "reproduce" /\ updated \in Range(herbivores)
    /\ Len(herbivores) = 2
    /\ heap[updated].energy % 1000 /= 0
    /\ heap[herbivores[2]].energy % 1000 = 0 /\ heap[herbivores[2]].energy > 0
    /\ heap[herbivores[2]].generation = heap[updated].generation + 1

\* how many elements the step removes from the list lst
Eaten(lst) == Len(lst) - Len(lst')

\* C19: an update removes at most one entity from the prey and food live
\* sets of the animal: a Herbivore at most one producer, a Carnivore at most
\* one herbivore, an Omnivore at most one herbivore or producer.
C19_EatAndStop ==
    [][/\ last_call'.op = "Herbivore.update" => Eaten(producers) <= 1
       /\ last_call'.op = "Carnivore.update" => Eaten(herbivores) <= 1
       /\ last_call'.op = "Omnivore.update" => Eaten(herbivores) + Eaten(producers) <= 1]_vars

\* the cell one step from the animal o in the direction dir
StepTowards(o, dir) == <<(o.x + Sign(dir[1])) % GRID_WIDTH, (o.y + Sign(dir[2])) % GRID_HEIGHT>>
\* the healthy omnivore at address a is alone in its live set, takes one step
\* per update and survives the baseline cost
LoneOmnivore(a) ==
    /\ omnivores = <<a>> /\ speed(heap[a]) = 1 /\ heap[a].disease_timer = 0
    /\ heap[a].energy - BASE_LIFE_COST - MoveCostFactor(metabolism(heap[a])) > 0
    /\ heap[a].age < heap[a].max_lifespan

\* C20: an Omnivore with a Herbivore and a Producer in sight steps towards
\* the strictly closer of the nearest Herbivore and the nearest Producer,
\* and towards the Herbivore, which it scans first, when both are at the
\* same distance.
C20_TargetChoice ==
    [][\A a \in Range(omnivores) :
        LET h == find_nearest(Self, a, herbivores)
            p == find_nearest(Self, a, producers)
        IN  (/\ last_call'.op = "Omnivore.update" /\ updated' = a
             /\ LoneOmnivore(a) /\ h.found /\ p.found) =>
                <<heap'[a].x, heap'[a].y>> =
                    StepTowards(heap[a], IF h.dist <= p.dist THEN h.dir ELSE p.dir)]_vars

\* the carnivores, by their place in the list, that are alive on the cell
\* where the step leaves the animal at address a
CarnivoresMet(a) ==
    {i \in 1..Len(carnivores) :
        /\ heap[carnivores[i]].x = heap'[a].x /\ heap[carnivores[i]].y = heap'[a].y
        /\ heap[carnivores[i]].energy > 0}
\* the step leaves every carnivore but the i-th of the list as it was
OthersUntouched(i) ==
    \A j \in 1..Len(carnivores) : j /= i => heap'[carnivores[j]] = heap[carnivores[j]]
\* the three outcomes of the encounter of the omnivore a with the i-th carnivore
OmnivoreKilled(a, i) ==
    /\ carnivores' = carnivores
    /\ heap'[carnivores[i]] = [heap[carnivores[i]] EXCEPT !.energy = @ + EAT_GAIN_CARNIVORE]
    /\ heap'[a].energy = -1000
CarnivoreKilled(a, i) ==
    /\ carnivores' = Pop(carnivores, i)
    /\ heap'[a].energy > 0
PassedPeacefully ==
    /\ carnivores' = carnivores
    /\ \A c \in Range(carnivores) : heap'[c] = heap[c]

MooreNeighbour(o, x, y) ==
    \E dx, dy \in {-1, 0, 1} :
        /\ <<dx, dy>> /= <<0, 0>>
        /\ x = (o.x + dx) % GRID_WIDTH /\ y = (o.y + dy) % GRID_HEIGHT
\* an organism of the list lst is on the cell (x, y) in this state
Holds(lst, x, y) == \E b \in Range(lst) : heap[b].x = x /\ heap[b].y = y

\* C22: a Producer.update that adds a producer puts it on one of the 8
\* toroidal neighbours of the parent, on a cell that held no Producer and no
\* Herbivore, Carnivore or Omnivore.
C22_SeedsFreeCell ==
    [][(last_call'.op = "Producer.update" /\ Len(producers') > Len(producers)) =>
        LET baby == heap'[producers'[Len(producers')]]
        IN  /\ Len(producers') = Len(producers) + 1
            /\ MooreNeighbour(heap[updated'], baby.x, baby.y)
            /\ ~Holds(producers, baby.x, baby.y)
            /\ ~Holds(herbivores \o carnivores \o omnivores, baby.x, baby.y)]_vars

(***************************************************************************)
(* The genomes of utils/toolbox.py.  A behaviour of SpecGenome is a        *)
(* sequence of calls of toolbox.individual() and of toolbox.mutate on the  *)
(* genome the previous call returned; last_call.ret is that genome.        *)
(***************************************************************************)
\* random.randint(*SPEED_RANGE)
random_speed == SPEED_RANGE[1]..SPEED_RANGE[2]

\* values of random.random(), in thousandths: 0 <= r < 1
RandomUnit == {0, 500, 999}

\* METABOLISM_RANGE[0] + random.random() * (METABOLISM_RANGE[1] - METABOLISM_RANGE[0])
random_metabolism ==
    {METABOLISM_RANGE[1] + (r * (METABOLISM_RANGE[2] - METABOLISM_RANGE[1])) \div 1000 :
        r \in RandomUnit}

\* random.randint(*VISION_RANGE)
random_vision == VISION_RANGE[1]..VISION_RANGE[2]

\* toolbox.individual(): one cycle over the three generators
individual == random_speed \X random_metabolism \X random_vision

\* random.choice([-1, 1])
ChoiceOfStep == {-1, 1}

\* values of random.uniform(-0.2, 0.2), in thousandths
UniformMetabolism == {-200, 50, 200}

\* the outcomes of the three "random.random() < MUTATION_RATE" tests
MutationTests == BOOLEAN \X BOOLEAN \X BOOLEAN

InitGenome ==
    /\ \E m \in Construct(<<>>, Quiet) :
        /\ rng = m.rng
        /\ heap = m.heap
        /\ environment = m.environment
        /\ producers = m.producers
        /\ herbivores = m.herbivores
        /\ carnivores = m.carnivores
        /\ omnivores = m.omnivores
        /\ next_id = m.next_id
        /\ history = m.history
        /\ current_step = m.current_step
        /\ is_paused = m.is_paused
        /\ is_replaying = m.is_replaying
        /\ step_counter = m.step_counter
        /\ population_history = m.population_history
        /\ memory_store = m.memory_store
    /\ \E g \in individual :
          last_call = [op |-> "toolbox.individual", ret |-> g, raised |-> "none"]
    /\ probe = Idle
    /\ longterm = NoFile
    /\ calls = 0
    /\ updated = -1

Individual ==
    /\ \E g \in individual :
          last_call' = [op |-> "toolbox.individual", ret |-> g, raised |-> "none"]
    /\ UNCHANGED <<managerVars, memory_store, longterm, calls>>

Mutate ==
    /\ \E m \in MutationTests, ds \in ChoiceOfStep, dm \in UniformMetabolism, dv \in ChoiceOfStep :
          last_call' = [op |-> "toolbox.mutate",
                        ret |-> mutate(last_call.ret, m, ds, dm, dv), raised |-> "none"]
    /\ UNCHANGED <<managerVars, memory_store, longterm, calls>>

NextGenome == Individual \/ Mutate

SpecGenome == InitGenome /\ [][NextGenome]_vars

Within(v, range) == range[1] <= v /\ v <= range[2]

InRange(g) ==
    /\ Within(g[1], SPEED_RANGE)
    /\ Within(g[2], METABOLISM_RANGE)
    /\ Within(g[3], VISION_RANGE)

\* C23: every genome that toolbox.individual() returns, and every genome that
\* toolbox.mutate returns for a genome within the ranges, has its speed within
\* SPEED_RANGE, its metabolism within METABOLISM_RANGE and its vision within
\* VISION_RANGE.
C23_GenomeInRange == InRange(last_call.ret)

\* a mutation has been held at the upper end of the speed range and at the
\* lower end of the metabolism range
C23_Witness ==
    /\ last_call.op = "toolbox.mutate"
    /\ last_call.ret[1] = SPEED_RANGE[2]
    /\ last_call.ret[2] = METABOLISM_RANGE[1]
    /\ last_call.ret[3] = VISION_RANGE[1]

\* the animals an outbreak has infected
NewlyInfected == {a \in Animals : heap[a].disease_timer = 0 /\ heap'[a].disease_timer /= 0}

AnimalUpdated == last_call'.op \in {"Herbivore.update", "Carnivore.update", "Omnivore.update"}

\* the update has changed no list: the animal has eaten nothing, has had no
\* offspring and has met no carnivore
ListsKept == UNCHANGED <<producers, herbivores, carnivores, omnivores>>

\* the energy an animal that is not infected has after an update in which it
\* only pays and discovers: the baseline cost, the plain move cost of at most
\* speed steps, and at most one discovery bonus
PlainEnergy(o) ==
    {o.energy - BASE_LIFE_COST - n * MoveCostFactor(metabolism(o)) + d * DISCOVERY_BONUS :
        n \in 0..speed(o), d \in {0, 1}}

\* C25: an update of a live infected animal decreases its disease_timer by
\* exactly 1; an update of a live animal whose disease_timer is 0 leaves it at
\* 0 and multiplies neither the baseline cost nor the move cost by
\* DISEASE_ENERGY_DRAIN_MULTIPLIER.
C25_DiseaseDuration ==
    [][(AnimalUpdated /\ heap[updated'].energy > 0) =>
        LET before == heap[updated']
            after == heap'[updated']
        IN  /\ before.disease_timer > 0 => after.disease_timer = before.disease_timer - 1
            /\ before.disease_timer = 0 => after.disease_timer = 0
            /\ (before.disease_timer = 0 /\ ListsKept /\ after.energy > 0)
                  => after.energy \in PlainEnergy(before)]_vars

\* an infected animal has been updated a first time and lives
C25_Witness ==
    /\ last_call.op \in {"Herbivore.update", "Carnivore.update", "Omnivore.update"}
    /\ heap[updated].disease_timer = DISEASE_DURATION - 1
    /\ heap[updated].energy > 0

(***************************************************************************)
(* The nutrient field under update_environment.  A behaviour of SpecField  *)
(* starts with a field that holds a background level everywhere and other  *)
(* levels on at most MaxNutrientCells cells, and calls update_environment   *)
(* on the field the call before has returned.                              *)
(***************************************************************************)
\* nutrient levels of a cell: none, one release, ten releases
NutrientLevels == {0, CONSUMER_NUTRIENT_RELEASE, 10 * CONSUMER_NUTRIENT_RELEASE}

\* the field with the level ground everywhere but on the cells that the
\* placements p name: p[i] = <<y, x, level>>
FieldOf(ground, p) ==
    [y \in 0..(GRID_HEIGHT - 1) |-> [x \in 0..(GRID_WIDTH - 1) |->
        IF \E i \in DOMAIN p : p[i][1] = y /\ p[i][2] = x
        THEN p[CHOOSE i \in DOMAIN p :
                    /\ p[i][1] = y /\ p[i][2] = x
                    /\ \A j \in DOMAIN p : (p[j][1] = y /\ p[j][2] = x) => j <= i][3]
        ELSE ground]]

NutrientFields ==
    {FieldOf(ground, p) :
        ground \in {0, INITIAL_NUTRIENT_LEVEL},
        p \in [1..MaxNutrientCells ->
                  (0..(GRID_HEIGHT - 1)) \X (0..(GRID_WIDTH - 1)) \X NutrientLevels]}

InitField ==
    /\ \E m \in Construct(<<>>, Quiet) : \E a \in NutrientFields :
        /\ rng = m.rng
        /\ heap = [m.heap EXCEPT ![m.environment].a = a]
        /\ environment = m.environment
        /\ producers = m.producers
        /\ herbivores = m.herbivores
        /\ carnivores = m.carnivores
        /\ omnivores = m.omnivores
        /\ next_id = m.next_id
        /\ history = m.history
        /\ current_step = m.current_step
        /\ is_paused = m.is_paused
        /\ is_replaying = m.is_replaying
        /\ step_counter = m.step_counter
        /\ population_history = m.population_history
        /\ memory_store = m.memory_store
    /\ last_call = [op |-> "__init__", ret |-> "none", raised |-> "none"]
    /\ probe = Idle
    /\ longterm = NoFile
    /\ calls = 0
    /\ updated = -1

\* "self.environment[:] = update_environment(self.environment)"
UpdateEnvironment ==
    OrganismCalled("update_environment", -1,
                   [Self EXCEPT !.heap[environment].a = update_environment(@)])

NextField == UpdateEnvironment

SpecField == InitField /\ [][NextField]_vars

\* np.sum(a)
RECURSIVE SumRow(_, _)
SumRow(row, n) == IF n = 0 THEN 0 ELSE row[n - 1] + SumRow(row, n - 1)
RECURSIVE SumRows(_, _)
SumRows(a, n) == IF n = 0 THEN 0 ELSE SumRow(a[n - 1], GRID_WIDTH) + SumRows(a, n - 1)
Total(a) == SumRows(a, GRID_HEIGHT)

Field == heap[environment].a
Cells == (0..(GRID_HEIGHT - 1)) \X (0..(GRID_WIDTH - 1))
EnvironmentUpdated == last_call'.op = "update_environment"

\* C26: update_environment, applied to a field without negative values,
\* returns a field without negative values whose total is not greater than
\* the total of the input: it is the total of the input times
\* (1 - NUTRIENT_DECAY_RATE), less than one unit of rounding per cell.
C26_MassNotIncreasing ==
    [][EnvironmentUpdated =>
        /\ \A c \in Cells : Field'[c[1]][c[2]] >= 0
        /\ Total(Field') <= Total(Field)
        /\ 100 * Total(Field') <= 99 * Total(Field)
        /\ 100 * Total(Field') > 99 * Total(Field) - 100 * Cardinality(Cells)]_vars

\* update_environment has returned a field with nutrients in it
C26_Witness ==
    /\ last_call.op = "update_environment"
    /\ Total(Field) > 0
    /\ \E c, d \in Cells : Field[c[1]][c[2]] > Field[d[1]][d[2]]

\* the 4 toroidal neighbours of the cell c
Neighbours(c) ==
    {<<(c[1] + d[2]) % GRID_HEIGHT, (c[2] + d[1]) % GRID_WIDTH>> : d \in DiffusionDirs}

\* the field has nutrients on the cell c only
OnlyOn(c) ==
    /\ Field[c[1]][c[2]] > 0
    /\ \A d \in Cells \ {c} : Field[d[1]][d[2]] = 0

\* C27: for a field with exactly one positive cell and zeros elsewhere, one
\* call of update_environment strictly decreases the value of that cell,
\* strictly increases each of its 4 toroidal neighbours and returns no
\* negative value.
C27_SingleCellDiffusion ==
    [][EnvironmentUpdated =>
        \A c \in Cells : OnlyOn(c) =>
            /\ Field'[c[1]][c[2]] < Field[c[1]][c[2]]
            /\ \A n \in Neighbours(c) : Field'[n[1]][n[2]] > Field[n[1]][n[2]]
            /\ \A d \in Cells : Field'[d[1]][d[2]] >= 0]_vars

\* the nutrients of one release on the cell (0, 0) have spread to its 4
\* neighbours, across the edges of the grid
C27_Witness ==
    /\ last_call.op = "update_environment"
    /\ calls = 1
    /\ Field[0][0] = 99
    /\ \A n \in Neighbours(<<0, 0>>) : Field[n[1]][n[2]] = 99
    /\ \A d \in Cells \ (Neighbours(<<0, 0>>) \cup {<<0, 0>>}) : Field[d[1]][d[2]] = 0

(***************************************************************************)
(* Persistence: flush_to_longterm, load_from_longterm and the file.  The   *)
(* stores of SpecPersist hold the states that update_state has written     *)
(* and the states that load_from_longterm has read, so every state has its *)
(* five keys and is made either of lists or of arrays.  last_call.args are *)
(* the arguments of the last call, and probe is the call before it.        *)
(***************************************************************************)
IsNone(v) == DOMAIN v = {"none"}

\* DummyOrganism(...) for the organism i of a state made of lists
DummyOrganism(population_data, species_names, lineage, i) ==
    [x |-> population_data.positions.list[i].list[1],
     y |-> population_data.positions.list[i].list[2],
     energy |-> population_data.energy.list[i],
     speed |-> population_data.speed.list[i],
     generation |-> population_data.generation.list[i],
     species |-> species_names.list[i],
     id |-> lineage.organism_ids.list[i],
     parent_id |-> IF lineage.parent_ids.list[i] /= "None"
                   THEN lineage.parent_ids.list[i] ELSE NoParent]

\* _reconstruct_organisms
reconstruct_organisms(population_data, species_names, lineage) ==
    IF IsNone(population_data) \/ IsNone(species_names) \/ IsNone(lineage) THEN <<>>
    ELSE [i \in 1..Len(population_data.positions.list) |->
            DummyOrganism(population_data, species_names, lineage, i)]

\* the group that one iteration of the loop of flush_to_longterm writes.  A
\* state that load_from_longterm has read holds arrays of numbers and of
\* bytes; np.array and h5py write them back as they are.
FlushedGroup(state) ==
    IF IsList(state.species_names)
    THEN SavedGroup(state.board,
                    reconstruct_organisms(state.population, state.species_names,
                                          state.lineage),
                    IF IsNone(state.debug_logs) THEN PyList(<<>>) ELSE state.debug_logs)
    ELSE [gameboard |-> state.board,
          positions |-> state.population.positions, energy |-> state.population.energy,
          speed |-> state.population.speed, generation |-> state.population.generation,
          species_names |-> state.species_names, debug_logs |-> state.debug_logs,
          lineage |-> state.lineage]

\* flush_to_longterm: [s, file, ret, raised].  HDF5Storage has no method
\* create_empty_file: the call on an empty store raises AttributeError.
flush_to_longterm(s, file) ==
    IF DOMAIN s.states = {}
    THEN [s |-> s, file |-> file, ret |-> "none", raised |-> "AttributeError"]
    ELSE [s |-> s,
          file |-> [exists |-> TRUE,
                    groups |-> [t \in (DOMAIN file.groups) \cup (DOMAIN s.states) |->
                                    IF t \in DOMAIN s.states THEN FlushedGroup(s.states[t])
                                    ELSE file.groups[t]]],
          ret |-> "none", raised |-> "none"]

\* the keys of a dict in increasing order
RECURSIVE Sorted(_)
Sorted(S) == IF S = {} THEN <<>>
             ELSE LET t == CHOOSE u \in S : \A v \in S : u <= v
                  IN  <<t>> \o Sorted(S \ {t})

\* HDF5Storage.load_simulation_state(): [ret, raised]; h5py.File(filename, "r")
\* raises OSError when the file does not exist
load_simulation_state(file) ==
    IF ~file.exists THEN [ret |-> "none", raised |-> "OSError"]
    ELSE [ret |-> [i \in 1..Cardinality(DOMAIN file.groups) |->
                        <<Sorted(DOMAIN file.groups)[i],
                          ExtractedState(file.groups[Sorted(DOMAIN file.groups)[i]])>>],
          raised |-> "none"]

\* a nutrient field at its initial level, one cell after a release
Environment1 ==
    PyList(<<<<INITIAL_NUTRIENT_LEVEL, INITIAL_NUTRIENT_LEVEL>>,
             <<INITIAL_NUTRIENT_LEVEL, INITIAL_NUTRIENT_LEVEL + CONSUMER_NUTRIENT_RELEASE>>>>)

\* the arguments board, organisms and debug_logs of a write
Contents ==
    {[board |-> b, organisms |-> o, debug_logs |-> PyList(<<"log">>)] :
        b \in {Board1, Environment1}, o \in {<<>>, <<Org1>>, <<Org2, Org1>>}}

\* a call op with the arguments args that left the store and the file of r
PersistenceCalled(op, args, r) ==
    /\ calls < MaxCalls
    /\ calls' = calls + 1
    /\ memory_store' = r.s
    /\ longterm' = r.file
    /\ last_call' = [op |-> op, ret |-> r.ret, raised |-> r.raised, args |-> args]
    /\ probe' = last_call
    /\ UNCHANGED <<heap, environment, producers, herbivores, carnivores, omnivores,
                   history, current_step, is_paused, is_replaying, step_counter,
                   population_history, next_id, rng, updated>>

\* the outcome r of a method of the store, which leaves the file alone
OnStore(r) == [s |-> r.s, file |-> longterm, ret |-> r.ret, raised |-> r.raised]

WriteState ==
    \E t \in Timesteps, c \in Contents :
        PersistenceCalled("update_state", [timestep |-> t, content |-> c],
            OnStore(update_state(memory_store, t, c.board, c.organisms, c.debug_logs)))

WriteTick ==
    \E t \in Timesteps, c \in Contents :
        PersistenceCalled("save_simulation_state", [timestep |-> t, content |-> c],
            [s |-> memory_store,
             file |-> save_simulation_state(longterm, t, c.board, c.organisms, c.debug_logs),
             ret |-> "none", raised |-> "none"])

Flush ==
    PersistenceCalled("flush_to_longterm", "none", flush_to_longterm(memory_store, longterm))

LoadTick ==
    \E t \in Timesteps :
        PersistenceCalled("load_from_longterm", [timestep |-> t],
            OnStore(load_from_longterm(memory_store, longterm, t)))

InitPersist ==
    /\ memory_store = NewStore("live")
    /\ longterm = NoFile
    /\ calls = 0
    /\ last_call = [op |-> "__init__", ret |-> "none", raised |-> "none", args |-> "none"]
    /\ heap = <<>> /\ environment = 0
    /\ producers = <<>> /\ herbivores = <<>> /\ carnivores = <<>> /\ omnivores = <<>>
    /\ history = <<>> /\ current_step = 0 /\ is_paused = FALSE /\ is_replaying = FALSE
    /\ step_counter = 0 /\ population_history = <<>>
    /\ next_id = [k \in Kinds |-> 0] /\ rng = Quiet /\ updated = -1
    /\ probe = [op |-> "none", ret |-> "none", raised |-> "none", args |-> "none"]

NextPersist == WriteState \/ WriteTick \/ Flush \/ LoadTick

SpecPersist == InitPersist /\ [][NextPersist]_vars

(***************************************************************************)
(* Properties of the persistence.                                          *)
(***************************************************************************)
\* the state loaded holds what the state written (made of lists, or of
\* arrays when it was itself loaded) holds: as many organisms, with the same
\* position, energy, speed, generation, species, id and parent id, in the
\* same order, and the same value in every cell of the board
SameOrganisms(written, loaded) ==
    /\ Len(loaded.population.positions.ndarray) = Len(written.population.positions.list)
    /\ \A i \in 1..Len(written.population.positions.list) :
          /\ loaded.population.positions.ndarray[i] = written.population.positions.list[i].list
          /\ loaded.species_names.ndarray[i] = Bytes(written.species_names.list[i])
          /\ loaded.lineage.organism_ids.ndarray[i] = Bytes(written.lineage.organism_ids.list[i])
          /\ loaded.lineage.parent_ids.ndarray[i] = Bytes(written.lineage.parent_ids.list[i])
    /\ loaded.population.energy.ndarray = written.population.energy.list
    /\ loaded.population.speed.ndarray = written.population.speed.list
    /\ loaded.population.generation.ndarray = written.population.generation.list
    /\ Len(loaded.species_names.ndarray) = Len(written.species_names.list)
    /\ Len(loaded.lineage.organism_ids.ndarray) = Len(written.lineage.organism_ids.list)
    /\ Len(loaded.lineage.parent_ids.ndarray) = Len(written.lineage.parent_ids.list)

SameBoard(written, loaded) ==
    /\ Len(loaded.board.ndarray) = Len(written.board.list)
    /\ \A r \in 1..Len(written.board.list) :
          /\ Len(loaded.board.ndarray[r]) = Len(written.board.list[r])
          /\ \A c \in 1..Len(written.board.list[r]) :
                1000 * loaded.board.ndarray[r][c] = written.board.list[r][c]

SameTick(written, loaded) ==
    IF IsList(written.species_names)
    THEN SameOrganisms(written, loaded) /\ SameBoard(written, loaded)
    ELSE loaded = written

\* load_from_longterm is called right after a flush_to_longterm that returned,
\* for a tick the store holds
LoadAfterFlush ==
    /\ last_call'.op = "load_from_longterm"
    /\ last_call.op = "flush_to_longterm" /\ last_call.raised = "none"
    /\ last_call'.args.timestep \in DOMAIN memory_store.states

\* C28: for a tick held in memory, flush_to_longterm followed by
\* load_from_longterm of that tick yields as many organisms, with the same
\* position, energy, genome components, generation, species, id and parent
\* id in the same order, and the same environment value in every cell, as
\* were written.
C28_RoundTrip ==
    [][LoadAfterFlush =>
        /\ last_call'.raised = "none"
        /\ SameTick(memory_store.states[last_call'.args.timestep],
                    memory_store'.states[last_call'.args.timestep])]_vars

\* the last two calls are calls of op for the same tick, and the first of
\* them returned
CalledTwice(op) ==
    /\ last_call'.op = op
    /\ last_call.op = op /\ last_call.raised = "none"
    /\ last_call.args.timestep = last_call'.args.timestep

\* the file holds one group for the tick written, with the content of the
\* write; the other groups are as they were; the same content again leaves
\* the file as it was
FileHolds ==
    LET t == last_call'.args.timestep
        c == last_call'.args.content
    IN  /\ DOMAIN longterm'.groups = DOMAIN longterm.groups
        /\ longterm'.groups[t] = SavedGroup(c.board, c.organisms, c.debug_logs)
        /\ \A u \in (DOMAIN longterm.groups) \ {t} : longterm'.groups[u] = longterm.groups[u]
        /\ c = last_call.args.content => longterm' = longterm

\* the same of the states of the store
StoreHolds ==
    LET t == last_call'.args.timestep
        c == last_call'.args.content
    IN  /\ DOMAIN memory_store'.states = DOMAIN memory_store.states
        /\ memory_store'.states[t]
              = StoreState(memory_store, t, c.board, c.organisms, c.debug_logs).s.states[t]
        /\ \A u \in (DOMAIN memory_store.states) \ {t} :
              memory_store'.states[u] = memory_store.states[u]
        /\ c = last_call.args.content => memory_store' = memory_store

\* C29: after save_simulation_state or update_state is called twice for the
\* same tick, the store holds exactly one record for the tick, whose content
\* is the one of the second write; the records of the other ticks are
\* unchanged; and the same content written twice gives the store that
\* writing it once gives.
C29_Upsert ==
    [][/\ CalledTwice("save_simulation_state") => FileHolds
       /\ CalledTwice("update_state") => StoreHolds]_vars

\* C29, for the calls that return: the same, after save_simulation_state is
\* called twice for the same tick, or update_state is called twice for the
\* same tick and returns both times.
C29_UpsertOfReturnedWrites ==
    [][/\ CalledTwice("save_simulation_state") => FileHolds
       /\ (CalledTwice("update_state") /\ last_call'.raised = "none") => StoreHolds]_vars

\* update_state has returned twice in a row for the same tick, with another
\* board or other organisms the second time
C29_Witness ==
    /\ last_call.op = "update_state" /\ last_call.raised = "none"
    /\ probe.op = "update_state" /\ probe.raised = "none"
    /\ probe.args.timestep = last_call.args.timestep
    /\ probe.args.content /= last_call.args.content
    /\ memory_store.mode = "live"

\* C30: flush_to_longterm on a store without recorded states returns without
\* raising and leaves a file from which load_simulation_state() returns the
\* empty list.
C30_FlushOfEmptyStore ==
    [][(last_call'.op = "flush_to_longterm" /\ DOMAIN memory_store.states = {}) =>
        /\ last_call'.raised = "none"
        /\ load_simulation_state(longterm').raised = "none"
        /\ load_simulation_state(longterm').ret = <<>>]_vars

\* HDF5Storage.load_simulation_state(timestep): [ret, raised], the list of
\* the one pair of the tick, or the empty list when the file has no group
\* of the tick
load_simulation_state_timestep(file, timestep) ==
    IF ~file.exists THEN [ret |-> "none", raised |-> "OSError"]
    ELSE IF timestep \notin DOMAIN file.groups THEN [ret |-> <<>>, raised |-> "none"]
    ELSE [ret |-> <<<<timestep, ExtractedState(file.groups[timestep])>>>>,
          raised |-> "none"]

\* C31: loading a tick that was never written to the long-term store, also
\* when nothing at all has been written yet, does not raise:
\* load_simulation_state(t) returns the empty list, load_from_longterm returns
\* None, and the states, the current timestep and the mode of the memory
\* store are unchanged.
C31_MissingSnapshot ==
    [][(last_call'.op = "load_from_longterm"
            /\ last_call'.args.timestep \notin DOMAIN longterm.groups) =>
        /\ load_simulation_state_timestep(longterm, last_call'.args.timestep).raised = "none"
        /\ load_simulation_state_timestep(longterm, last_call'.args.timestep).ret = <<>>
        /\ last_call'.raised = "none"
        /\ last_call'.ret = "None"
        /\ memory_store' = memory_store]_vars

(***************************************************************************)
(* Properties of the ids.                                                  *)
(***************************************************************************)
\* the organisms of the four live sets
Living == Range(producers \o herbivores \o carnivores \o omnivores)

\* C32: ids are unique within a run: no two organisms, of any kind, have the
\* same id.  Stated of the organisms of the live sets, which are distinct
\* organisms constructed in the run.
C32_UniqueIds ==
    \A a \in Living : \A b \in Living : a /= b => heap[a].id /= heap[b].id

(***************************************************************************)
(* The manager driven through the InputHandler: step_simulation runs only  *)
(* from _handle_step_forward, that is with the cursor on the last snapshot.*)
(***************************************************************************)
NextGuarded ==
    \/ StepBack
    \/ StepForward
    \/ Reset
    \/ HandleStepBack
    \/ HandleStepForward

SpecGuarded == Init /\ [][NextGuarded]_vars

\* C33: when step_simulation is only invoked with the cursor on the last
\* snapshot, in every reachable state the cursor is within the history, the
\* snapshot under the cursor carries the tick number current_step, and the
\* four live sets and the environment equal that snapshot in value.
C33_LiveEqualsSnapshot ==
    /\ 0 <= current_step
    /\ current_step <= Len(history) - 1
    /\ history[current_step + 1].t = current_step
    /\ Fields(heap, Self) = Fields(heap, history[current_step + 1])

\* a tick has run from the handler and the cursor has been moved back to a
\* snapshot before the last
C33_Witness ==
    /\ last_call.op \in {"handle_step_back", "step_back"}
    /\ last_call.ret = TRUE
    /\ Len(history) >= 2
    /\ current_step < Len(history) - 1
    /\ Fields(heap, history[current_step + 1]) /= Fields(heap, history[Len(history)])

(***************************************************************************)
(* One tick, statement by statement (SimulationManager.step_simulation and *)
(* the loops of _update_producers .. _update_omnivores).  In SpecPass      *)
(* probe is the position of the tick: the statement it has reached         *)
(* (phase), the position of the list iterator of a pass (index), the       *)
(* organisms the pass has updated so far, in order (visited), and the live *)
(* set as it was when the pass started (first); calls counts the           *)
(* iterations of the passes of the tick.  The objects keep their addresses *)
(* until the snapshot is stored.                                           *)
(***************************************************************************)
Passes == <<"producers", "herbivores", "carnivores", "omnivores">>

\* the statement that follows the pass over lst
AfterPass(lst) ==
    CASE lst = "producers" -> "herbivores"
      [] lst = "herbivores" -> "carnivores"
      [] lst = "carnivores" -> "omnivores"
      [] lst = "omnivores" -> "disease"

\* the position at the start of the statement phase in the world w
At(phase, w) ==
    [phase |-> phase, index |-> 0, visited |-> <<>>,
     first |-> IF phase \in Range(Passes) THEN w[phase] ELSE <<>>]

\* the iterations a tick can make: a producer is seeded on a cell that holds
\* none, and a newborn animal does not reproduce in the pass of its birth
PassLimit == GRID_WIDTH * GRID_HEIGHT + 2 * MaxOrganisms

\* producers that seed whenever they can, to the east or to the south-east
Spreading == [Quiet EXCEPT !.seed = {TRUE}, !.adjacent = {<<1, 0>>, <<1, 1>>}]

\* the worlds of a tick and the random source of each
\* a herbivore that the baseline cost starves, ahead of another in the list
StarvingFirst ==
    <<Animal("Herbivore", 0, 0, 1000, Walker), Animal("Herbivore", 2, 2, 20000, ShortSighted)>>

PassWorlds ==
    {ExampleWorld, StarvingWorld, LastStepWorld, OldWorld, FertileHerbivore,
     FertileCarnivore, FertileOmnivore, HuntWorld, EncounterWorld, PackWorld, SickWorld,
     BorderWorld, CrowdedWorld, SeedingWorld, StarvingFirst}

RandomInPass(world) == IF world = SeedingWorld THEN Spreading ELSE RandomIn(world)

\* the values of repro_cooldown_timer of the animals at the start of the
\* tick: ready, ready after this tick's decrement, and not ready
CooldownTimers == {0, 1, 2}

\* the animals of m, each with the timer t
Resting(m, t) ==
    [m EXCEPT !.heap = [a \in DOMAIN m.heap |->
                            IF m.heap[a].cls \in {"Herbivore", "Carnivore", "Omnivore"}
                            THEN [m.heap[a] EXCEPT !.repro_cooldown_timer = t]
                            ELSE m.heap[a]]]

InitPass ==
    /\ \E world \in PassWorlds : \E t \in CooldownTimers :
       \E m0 \in Construct(<<>>, RandomInPass(world)) :
       \E m \in {Resting(PlaceAll(m0, world), t)} :
        /\ rng = m.rng
        /\ heap = m.heap
        /\ environment = m.environment
        /\ producers = m.producers
        /\ herbivores = m.herbivores
        /\ carnivores = m.carnivores
        /\ omnivores = m.omnivores
        /\ next_id = m.next_id
        /\ history = m.history
        /\ current_step = m.current_step
        /\ is_paused = m.is_paused
        /\ is_replaying = m.is_replaying
        /\ step_counter = m.step_counter
        /\ population_history = m.population_history
        /\ memory_store = m.memory_store
        /\ probe = At("producers", m)
    /\ last_call = [op |-> "__init__", ret |-> "none", raised |-> "none"]
    /\ longterm = NoFile
    /\ calls = 0
    /\ updated = -1

\* the statement op has run and left the world w; the tick is now at phase
Stepped(op, w, phase) ==
    /\ SetManager(w)
    /\ probe' = At(phase, w)
    /\ updated' = -1
    /\ last_call' = [op |-> op, ret |-> "none", raised |-> "none"]
    /\ UNCHANGED <<longterm, calls>>

\* one iteration of "for o in self.<lst>": the update of the organism self
\* under the iterator has left the world w
Iterated(op, self, w) ==
    /\ calls < PassLimit
    /\ calls' = calls + 1
    /\ SetManager(w)
    /\ probe' = [probe EXCEPT !.index = @ + 1, !.visited = Append(@, self)]
    /\ updated' = self
    /\ last_call' = [op |-> op, ret |-> "none", raised |-> "none"]
    /\ UNCHANGED longterm

\* a loop body that takes the dead animal out of its list at once
UpdatedAndFiltered(w, self) ==
    {IF is_dead(v.heap[self])
     THEN [EnvAdd(v, w.heap[self].y, w.heap[self].x, CONSUMER_NUTRIENT_RELEASE)
            EXCEPT ![ListOf(w.heap[self].cls)] = Alive(v, ListOf(w.heap[self].cls))]
     ELSE v : v \in AnimalUpdate(w, self)}
\* the body of the loop of _update_herbivores (_update_carnivores,
\* _update_omnivores) for the animal self
UpdatedInPass(w, self) ==
    {IF is_dead(v.heap[self])
     THEN EnvAdd(v, w.heap[self].y, w.heap[self].x, CONSUMER_NUTRIENT_RELEASE)
     ELSE v : v \in AnimalUpdate(w, self)}

IterateProducers ==
    /\ probe.phase = "producers"
    /\ probe.index < Len(producers)
    /\ \E w \in ProducerUpdate(Self, producers[probe.index + 1]) :
            Iterated("Producer.update", producers[probe.index + 1], w)

IterateAnimals ==
    \E lst \in {"herbivores", "carnivores", "omnivores"} :
        /\ probe.phase = lst
        /\ probe.index < Len(Self[lst])
        /\ \E w \in UpdatedInPass(Self, Self[lst][probe.index + 1]) :
                Iterated("update", Self[lst][probe.index + 1], w)

\* the iterator is exhausted: "self.<lst>[:] = [o for o in self.<lst> if not
\* o.is_dead()]"
FilterDead ==
    \E lst \in Range(Passes) :
        /\ probe.phase = lst
        /\ probe.index >= Len(Self[lst])
        /\ Stepped("filter", [Self EXCEPT ![lst] = Alive(Self, lst)], AfterPass(lst))

RollDisease ==
    /\ probe.phase = "disease"
    /\ \E w \in MaybeOutbreak({Self}, rng.disease) : Stepped("disease", w, "spawn")

RollSpawn ==
    /\ probe.phase = "spawn"
    /\ \E w \in {v \in {Self} : FALSE \in rng.spawn}
                    \cup UNION {spawn_random_organism_on_border(v, current_season(current_step)) :
                                    v \in {u \in {Self} : TRUE \in rng.spawn}} :
            Stepped("spawn", w, "environment")

DiffuseEnvironment ==
    /\ probe.phase = "environment"
    /\ \E w \in Diffused({Self}) : Stepped("update_environment", w, "advance")

\* "self.current_step += 1" and "self.step_counter += 1"
AdvanceCounters ==
    /\ probe.phase = "advance"
    /\ Stepped("advance", [Self EXCEPT !.current_step = @ + 1, !.step_counter = @ + 1],
               "snapshot")

\* from "should_display = ..." to the return
StoreSnapshot ==
    /\ probe.phase = "snapshot"
    /\ \E r \in {Display(store_current_state(Self), step_counter >= get_step_skip)} :
        /\ SetManager(r.m)
        /\ probe' = At("done", r.m)
        /\ updated' = -1
        /\ last_call' = [op |-> "step_simulation", ret |-> r.ret, raised |-> r.raised]
        /\ UNCHANGED <<longterm, calls>>

NextPass ==
    \/ IterateProducers
    \/ IterateAnimals
    \/ FilterDead
    \/ RollDisease
    \/ RollSpawn
    \/ DiffuseEnvironment
    \/ AdvanceCounters
    \/ StoreSnapshot

SpecPass == InitPass /\ [][NextPass]_vars

\* ENABLED <<NextPass>>_vars: the tick has a statement left to run (and, in
\* a pass, the model has iterations left)
CanStep ==
    /\ probe.phase /= "done"
    /\ \/ probe.phase \notin Range(Passes)
       \/ probe.index >= Len(Self[probe.phase])
       \/ calls < PassLimit

\* the statements of the one thread that runs a tick run one after the
\* other, so a statement that can run does run: weak fairness of NextPass,
\* WF_vars(NextPass), with its ENABLED written out as CanStep
SpecPassFair == SpecPass /\ ([]<>(~CanStep) \/ []<><<NextPass>>_vars)

(***************************************************************************)
(* Properties of the tick, statement by statement.                         *)
(***************************************************************************)
\* C34: every tick terminates: each pass makes finitely many iterations
\* although the organisms created during the pass are appended to the list
\* under iteration and are updated, and may seed, in the same pass.
C34_TickTerminates == <>(probe.phase = "done")

\* the pass over the producers has updated the one producer it started with,
\* the producer that one seeded, and the producers seeded by the seeded ones
C34_Witness ==
    /\ probe.phase = "producers"
    /\ Len(probe.first) = 1
    /\ Len(producers) >= 3
    /\ probe.index = Len(producers)

\* C35: in the pass of a kind every organism of the kind that is in the live
\* set when the pass starts, and every one born during the pass, is updated
\* exactly once: the organisms updated so far are, in order, the elements of
\* the list up to the iterator, the list still begins with the elements it
\* had when the pass started, and no organism is in it twice; the filter
\* runs when the iterator has reached the end of the list.
C35_EachUpdatedOnce ==
    probe.phase \in Range(Passes) =>
        /\ probe.index <= Len(Self[probe.phase])
        /\ probe.visited = SubSeq(Self[probe.phase], 1, probe.index)
        /\ probe.first = SubSeq(Self[probe.phase], 1, Len(probe.first))
        /\ Cardinality(Range(Self[probe.phase])) = Len(Self[probe.phase])

\* a pass over animals has reached the end of the list after a birth: the
\* newborn has been updated too
C35_Witness ==
    /\ probe.phase \in {"herbivores", "carnivores", "omnivores"}
    /\ Len(probe.first) > 0
    /\ Len(Self[probe.phase]) > Len(probe.first)
    /\ probe.index = Len(Self[probe.phase])
    /\ updated = Self[probe.phase][Len(Self[probe.phase])]

\* the step is an iteration of the pass over a list of animals
AnimalIterated ==
    /\ probe.phase \in {"herbivores", "carnivores", "omnivores"}
    /\ probe'.phase = probe.phase
    /\ probe'.index = probe.index + 1

\* the list of the pass after the step
ListAfter == Self'[probe.phase]
\* the update of the step has appended a newborn to the list of the pass
Reproduced == Len(ListAfter) = Len(Self[probe.phase]) + 1
\* the newborn
Newborn == heap'[ListAfter[Len(ListAfter)]]

\* C36: reproduction is gated by the cooldown.  The update of an animal in a
\* tick appends at most one newborn; it does so only when the animal's
\* cooldown is 0 once the update has decremented it and its energy, at the
\* reproduction test, is at least the threshold of its kind (the energy it
\* keeps and the energy it gives to the newborn add up to it); an animal born
\* in the pass does not reproduce in it; and a reproduction sets the cooldown
\* of the parent and of the newborn to REPRODUCTION_COOLDOWN, which an update
\* lowers by one, so that two reproductions of an animal are at least
\* REPRODUCTION_COOLDOWN ticks apart.
C36_ReproductionGated ==
    [][AnimalIterated =>
        /\ Len(ListAfter) \in {Len(Self[probe.phase]), Len(Self[probe.phase]) + 1}
        /\ Reproduced =>
            /\ heap[updated'].repro_cooldown_timer <= 1
            /\ heap'[updated'].energy + Newborn.energy >= ReproThreshold(heap[updated'].cls)
            /\ updated' \in Range(probe.first)
            /\ heap'[updated'].repro_cooldown_timer = REPRODUCTION_COOLDOWN
            /\ Newborn.repro_cooldown_timer = REPRODUCTION_COOLDOWN
        /\ ~Reproduced =>
            heap'[updated'].repro_cooldown_timer
                = Max(heap[updated'].repro_cooldown_timer - 1, 0)]_vars

\* an animal of the start of the pass has just reproduced
C36_Witness ==
    /\ probe.phase \in {"herbivores", "carnivores", "omnivores"}
    /\ probe.index = Len(probe.first)
    /\ Len(Self[probe.phase]) = Len(probe.first) + 1
    /\ updated \in Range(probe.first)
    /\ heap[updated].repro_cooldown_timer = REPRODUCTION_COOLDOWN

\* the statements of a tick in the order of the claim
TickOrder ==
    <<"producers", "herbivores", "carnivores", "omnivores", "disease", "spawn",
      "environment", "advance", "snapshot", "done">>

\* the organisms of the list lst, by value, before and after the step
Before(lst) == Deref(heap, Self[lst])
After(lst) == Deref(heap', Self'[lst])
\* the nutrient array before and after the step
FieldBefore == heap[environment].a
FieldAfter == heap'[environment'].a

\* the step leaves the list lst as it is but for the disease timers
SameButTimers(lst) ==
    /\ Len(After(lst)) = Len(Before(lst))
    /\ \A i \in 1..Len(Before(lst)) :
            After(lst)[i] = Before(lst)[i]
                \/ (lst /= "producers"
                        /\ After(lst)[i] = [Before(lst)[i] EXCEPT !.disease_timer = DISEASE_DURATION])

\* the step leaves the list lst as it is or appends one organism that no
\* update has touched
SameOrSpawned(lst) ==
    \/ After(lst) = Before(lst)
    \/ /\ Len(After(lst)) = Len(Before(lst)) + 1
       /\ SubSeq(After(lst), 1, Len(Before(lst))) = Before(lst)
       /\ lst /= "producers" =>
            /\ After(lst)[Len(After(lst))].age = 0
            /\ After(lst)[Len(After(lst))].generation = 0

\* C37: the statements of a tick run in the order of TickOrder.  A pass is
\* left when its iterator is exhausted and leaves no dead organism in its
\* list; the disease roll comes after the four passes and changes nothing
\* but disease timers; the border spawn comes next and appends at most one
\* organism, not updated (age 0); the environment update comes next and
\* leaves the live sets alone; the counters are advanced next; and the
\* snapshot, taken last, carries the advanced tick number, the environment
\* after the diffusion and the live sets with the spawned organism.
C37_TickOrder ==
    [][/\ probe'.phase /= probe.phase =>
            \E i \in 1..(Len(TickOrder) - 1) :
                probe.phase = TickOrder[i] /\ probe'.phase = TickOrder[i + 1]
       /\ (probe.phase \in Range(Passes) /\ probe'.phase /= probe.phase) =>
            /\ probe.index >= Len(Self[probe.phase])
            /\ \A i \in 1..Len(After(probe.phase)) : ~is_dead(After(probe.phase)[i])
       /\ probe.phase = "disease" =>
            /\ \A lst \in Range(Passes) : SameButTimers(lst)
            /\ FieldAfter = FieldBefore /\ current_step' = current_step
       /\ probe.phase = "spawn" =>
            /\ \A lst \in Range(Passes) : SameOrSpawned(lst)
            /\ FieldAfter = FieldBefore /\ current_step' = current_step
       /\ probe.phase = "environment" =>
            /\ \A lst \in Range(Passes) : After(lst) = Before(lst)
            /\ FieldAfter = update_environment(FieldBefore)
            /\ current_step' = current_step /\ history' = history
       /\ probe.phase = "advance" =>
            /\ \A lst \in Range(Passes) : After(lst) = Before(lst)
            /\ FieldAfter = FieldBefore
            /\ current_step' = current_step + 1 /\ history' = history
       /\ probe.phase = "snapshot" =>
            /\ Len(history') = Len(history) + 1
            /\ current_step' = current_step
            /\ history'[Len(history')].t = current_step
            /\ Fields(heap', history'[Len(history')]) = Fields(heap, Self)
            /\ Fields(heap', Self') = Fields(heap, Self)]_vars

\* a tick is over in which an animal was spawned on the border: the snapshot
\* of the tick holds it with age 0 and carries the advanced tick number
C37_Witness ==
    /\ probe.phase = "done"
    /\ history[Len(history)].t = 1
    /\ \E lst \in {"herbivores", "carnivores", "omnivores"} :
       \E a \in Range(history[Len(history)][lst]) : heap[a].age = 0

(***************************************************************************)
(* Properties of the accesses to the nutrient array.                       *)
(***************************************************************************)
\* the cells [row][column] of the nutrient array that the step has changed
ChangedCells ==
    {c \in (DOMAIN heap[environment].a) \X (DOMAIN heap[environment].a[0]) :
        heap'[environment'].a[c[1]][c[2]] /= heap[environment].a[c[1]][c[2]]}

\* C38: an access to the nutrient array made for an organism addresses the
\* cell of the organism's position, environment[y, x], within the bounds of
\* the array: the update of an organism changes no cell but the one in row y
\* and column x of the position the organism is on.
C38_OwnCell ==
    [][last_call'.op \in {"Producer.update", "Herbivore.update", "Carnivore.update",
                          "Omnivore.update"} =>
        \A c \in ChangedCells : c = <<heap'[updated'].y, heap'[updated'].x>>]_vars

\* C39: a successful update_state never switches a live memory store into
\* replay: after update_state(t, ...) has returned on a store in live mode,
\* for any t, the store is in live mode and a following update_state call is
\* accepted.
C39_StaysLive ==
    [][(last_call'.op = "update_state" /\ last_call'.raised = "none"
            /\ memory_store.mode = "live") =>
        /\ memory_store'.mode = "live"
        /\ \A t \in Timesteps :
                update_state(memory_store', t, Board1, <<>>, PyList(<<>>)).raised = "none"]_vars

====
